---- MODULE Spec2Model ----
(***************************************************************************)
(* State-machine model of the EC2 cloud controller                          *)
(* (nova/endpoint/cloud.py, CloudController) together with the stores and   *)
(* workers it talks to: the instance directory, the volume store, the       *)
(* private address pool and the compute workers that consume its casts.     *)
(* Every API handler is one atomic action: the handlers run on a single     *)
(* reactor thread and contain no suspension point.                          *)
(***************************************************************************)
EXTENDS Integers, Sequences, FiniteSets, TLC

(* ------------------------------ bounds -------------------------------- *)
MaxInst == 2        \* instance ids that can be generated in one behaviour
MaxVol == 2         \* volume ids that can be generated in one behaviour
MaxCasts == 2       \* casts that can be in flight at the same time
MaxCount == 2       \* largest max_count / longest instance_id list of a call
MaxVolInst == 1     \* instances launched in the volume specification
MaxVolCasts == 1    \* casts in flight in the volume specification

(* --------------------------- program values --------------------------- *)
Projects == {"p1", "p2"}
Hosts == {"h1"}
Devices == {"/dev/sdf", "/dev/sdg"}
FixedAddrs == {3, 4}      \* last octets of the project's private range
NoAddress == 0
Images == {"ami-1", "ami-missing", "ami-vpn"}
KeyNames == {"", "mykey", "nokey"}

FloatingAddrs == {10, 11} \* last octets of the public range
NoProject == ""

Users == {"u1", "u2"}
ProjectIds == {"p1", "sysadmins"}
Roles == {"sysadmin"}
NoUser == ""
GlobalScope == "" \* project_id=None

\* ldapdriver.py:57-66: FLAGS.ldap_<role>, as the dn below ou=Groups
ldap_role_flag(role) == <<role \o "s">>

\* dns below ou=Groups, leaf first: <<cn>> or <<cn, cn of the parent>>
GroupDNs ==
    {<<p>> : p \in ProjectIds} \cup {ldap_role_flag(r) : r \in Roles}
        \cup {<<r, p>> : r \in Roles, p \in ProjectIds}

NoGroup == [exists |-> FALSE, owner |-> NoUser, member |-> {}]

GroupEntry(owner, member) ==
    [exists |-> TRUE, owner |-> owner, member |-> member]

\* request signer
Secrets == {"s1", "s2"}
ParamKeys ==
    {"Action", "B", "SignatureMethod", "SignatureVersion", "Timestamp", "a"}
Absent == "(absent)" \* the key is not in the dict

\* the values a request may carry under each key
ValuesOf(k) ==
    CASE k = "SignatureVersion" -> {"0", "1", "2", "3"}
      [] k = "SignatureMethod" -> {"HmacSHA1", "HmacSHA256"}
      [] k = "Action" -> {"Run", "RunT"}
      [] k = "Timestamp" -> {"T1", "1"}
      [] k = "a" -> {"x", "a b"}
      [] OTHER -> {"x"}

\* a dict: the keys it holds, each with its value
Dict(choice) ==
    [k \in {j \in ParamKeys : choice[j] # Absent} |-> choice[k]]

AllParams ==
    {Dict(c) : c \in {f \in [ParamKeys -> UNION {ValuesOf(k) : k \in ParamKeys}
                                              \cup {Absent}] :
                        \A k \in ParamKeys : f[k] \in ValuesOf(k) \cup {Absent}}}

Verb == "GET"
ServerString == "host"
Path == "/"

\* signer.py:58-61: the two hmac objects hold the secret and what update fed
NewSignerObject(secret_key) ==
    [made |-> TRUE, secret |-> secret_key, hmac |-> "", hmac_256 |-> "",
     calls |-> 0]

NoSigner ==
    [made |-> FALSE, secret |-> "", hmac |-> "", hmac_256 |-> "", calls |-> 0]

NoSignature == <<>>

\* hmac.digest(): a MAC of everything fed so far, different for different
\* algorithm, key or input
Digest(alg, secret, data) == <<alg, secret, data>>

\* base64.b64encode
B64(digest) == <<"b64">> \o digest

\* keys.sort(): byte order
ByteOrder ==
    <<"Action", "B", "SignatureMethod", "SignatureVersion", "Timestamp", "a">>

\* keys.sort(cmp=lambda x, y: cmp(x.lower(), y.lower()))
LowerOrder ==
    <<"a", "Action", "B", "SignatureMethod", "SignatureVersion", "Timestamp">>

Sorted(order, keys) == SelectSeq(order, LAMBDA k : k \in keys)

\* urllib.quote(s, safe='') and urllib.quote(s, safe='-_~') on these strings
Quote(s) == IF s = "a b" THEN "a%20b" ELSE s

RECURSIVE Concat(_)
Concat(strs) == IF strs = <<>> THEN "" ELSE Head(strs) \o Concat(Tail(strs))

RECURSIVE Join(_, _)
Join(sep, strs) ==
    IF strs = <<>> THEN ""
    ELSE IF Len(strs) = 1 THEN strs[1]
    ELSE strs[1] \o sep \o Join(sep, Tail(strs))

NoneSent == [made |-> FALSE, signature |-> NoSignature, secret |-> "",
             call |-> 0]

MaxCalls == 2 \* generate calls on one Signer object

\* zone manager
ZoneIds == {1, 2}
\* what the store holds for a zone: api_url, username, password
ZoneRecords ==
    {[api_url |-> "http://a", username |-> "u", password |-> "p"],
     [api_url |-> "http://b", username |-> "u", password |-> "q"]}
zone_failures_to_offline == 3 \* FLAGS.zone_failures_to_offline
zone_db_check_interval == 60 \* FLAGS.zone_db_check_interval
SecondsPerDay == 86400
\* datetime.now() - last_zone_db_check as a timedelta: whole days and the
\* seconds of the day that has begun
Elapsed == [days : {0, 1}, seconds : {10, 60}]
MaxAttempt == 4 \* failed polls in a row that are followed
NoException == ""
NoName == ""
ZoneMetadata == {[name |-> "child", capabilities |-> "caps"]}

\* every content of the zone table
ZoneDbs == UNION {[ids -> ZoneRecords] : ids \in SUBSET ZoneIds}

Services == {"compute", "volume"}
HostNames == {"h1", "h2"}
Caps == {"cpu"}
CapValues == {1, 2}
NoService == "" \* service=None
\* the capabilities a host reports
GroupNames == {"default", "web"}
Attributes == {"launchPermission", "kernel"}
OperationTypes == {"add", "remove", "replace"}
UserGroupLists == {<<>>, <<"all">>, <<"admins">>, <<"all", "admins">>,
                   <<"admins", "all">>, <<"admins", "devs">>}

CapDicts == UNION {[cs -> CapValues] : cs \in SUBSET Caps}

NoInstance == 0
NoMountpoint == "none"
Unassigned == "unassigned"
compute_topic == "compute"
vpn_image_id == "ami-vpn"
simple_network == FALSE

\* the volume hosts; each advertises the target numbers 1..iscsi_num_targets
VolumeHosts == {"h1", "h2"}
iscsi_num_targets == 2
TargetNums == 1..iscsi_num_targets
HostVolumeIds == {"vol-a", "vol-b", "vol-c"}
NoVolume == ""
NoTarget == 0
NoTargets == [h \in VolumeHosts |-> [t \in TargetNums |-> NoVolume]]

\* a fixed ip row that is bound to no instance
FreeIp == [instance |-> NoInstance, project |-> NoProject,
           allocated |-> FALSE, leased |-> FALSE]

InstIds == 1..MaxInst
VolIds == 1..MaxVol

\* a plain user of project p1 and an administrator working in project p2
Contexts == {[admin |-> FALSE, project |-> "p1"],
             [admin |-> TRUE, project |-> "p2"]}

VARIABLES
    instances,   \* instance directory: id -> record, for the existing ids
    volumes,     \* volume store: id -> record, for the existing ids
    fixed,       \* private address pool: address -> "free" | "allocated"
    casts,       \* rpc casts in flight, in producer order
    nextInst,    \* number of instance ids generated so far
    nextVol,     \* number of volume ids generated so far
    nextRes,     \* number of reservation ids handed to persisted instances
    floating,    \* public address pool: address -> owning project and instance
    users,       \* directory, ou=Users: uid -> kind of entry
    groups,      \* directory, ou=Groups: dn -> groupOfNames entry
    modify_only, \* FLAGS.ldap_user_modify_only
    signer,      \* a Signer object: its secret and what its hmacs were fed
    request,     \* the params dict of the request being signed
    sent,        \* the signature the request went out with
    verdict,     \* what the receiving side made of it
    zone_db,        \* the zone table: id -> api_url, username, password
    zone_states,    \* ZoneManager.zone_states: id -> ZoneState
    pending,        \* the polls in flight: <<zone, issued by which ping>>
    failed,         \* per zone, the polls that failed since the last success
    latest_ok,      \* per zone, whether its latest issued poll has succeeded
    service_states, \* ZoneManager.service_states: service -> host -> caps
    image_calls,    \* what the image service was asked to modify
    iscsi_targets,  \* the target-slot table: host -> target number -> volume
    host_volumes,   \* the volume rows of the volume hosts: id -> record
    fixed_ips,      \* the fixed ip rows: address -> binding, allocated, leased
    last         \* the call that produced this state and its outcome

\* the state of the auth driver, which no cloud controller handler touches
authVars == <<users, groups, modify_only>>

cloudVars == <<instances, volumes, fixed, casts, nextInst, nextVol, nextRes,
               floating>>

signVars == <<signer, request, sent, verdict>>
zoneVars == <<zone_db, zone_states, pending, failed, latest_ok, service_states>>
apiVars == <<image_calls>>
hostVars == <<iscsi_targets, host_volumes, fixed_ips>>
vars == <<cloudVars, authVars, signVars, zoneVars, apiVars, hostVars, last>>

(* ------------------------------ helpers ------------------------------- *)
Cast(dest, method, instance_id, volume_id, mountpoint) ==
    [dest |-> dest, method |-> method, instance_id |-> instance_id,
     volume_id |-> volume_id, mountpoint |-> mountpoint]

HostTopic(node_name) == "compute." \o node_name

\* the handler that ran last, how it returned, the branches it took, its
\* argument (the volume id, max_count, or for an id list the number of casts
\* the call emitted) and, for a volume verb, the status the volume had and
\* whether the step before had completed a detach of that volume
Outcome(op, result, branch, arg) ==
    [op |-> op, result |-> result, branch |-> branch, arg |-> arg,
     pre |-> "", follows |-> ""]

DetachCompleted(v) ==
    /\ last.arg = v
    /\ \/ last.op = "detach_volume" /\ last.result = "ok"
             /\ last.branch = "blind"
       \/ last.op = "deliver" /\ last.branch = "detach_volume"

VolumeOutcome(op, r, v) ==
    [op |-> op, result |-> r.result, branch |-> r.branch, arg |-> v,
     pre |-> IF v \in DOMAIN volumes THEN volumes[v].status ELSE "",
     follows |-> IF op = "detach_volume" /\ DetachCompleted(v)
                 THEN "detach" ELSE ""]

Visible(ctx, project_id) == ctx.admin \/ project_id = ctx.project

InstanceFound(insts, ctx, i) ==
    i \in DOMAIN insts /\ Visible(ctx, insts[i].project_id)

VolumeFound(vols, ctx, v) ==
    v \in DOMAIN vols /\ Visible(ctx, vols[v].project_id)

Remove(f, x) == [y \in DOMAIN f \ {x} |-> f[y]]

Extend(f, x, val) == [y \in DOMAIN f \cup {x} |-> IF y = x THEN val ELSE f[y]]

(* ----------------------------- volume store --------------------------- *)
NewVolume(project_id) ==
    [project_id |-> project_id, status |-> "available",
     attach_status |-> "detached", instance_id |-> NoInstance,
     mountpoint |-> NoMountpoint]

start_attach(vol, instance_id, mountpoint) ==
    [vol EXCEPT !.status = "attaching", !.instance_id = instance_id,
                !.mountpoint = mountpoint]

finish_attach(vol) ==
    [vol EXCEPT !.status = "in-use", !.attach_status = "attached"]

start_detach(vol) == [vol EXCEPT !.status = "detaching"]

finish_detach(vol) ==
    [vol EXCEPT !.status = "available", !.attach_status = "detached",
                !.instance_id = NoInstance, !.mountpoint = NoMountpoint]

(* ------------------------------- Init --------------------------------- *)
Init ==
    /\ instances = <<>>
    /\ volumes = <<>>
    /\ fixed = [a \in FixedAddrs |-> "free"]
    /\ casts = <<>>
    /\ nextInst = 0
    /\ nextVol = 0
    /\ nextRes = 0
    /\ floating = [a \in FloatingAddrs |->
                      [project_id |-> NoProject, instance_id |-> NoInstance]]
    /\ users = [u \in Users |-> "absent"]
    /\ groups = [d \in GroupDNs |-> NoGroup]
    /\ modify_only = FALSE
    /\ signer = NoSigner
    /\ request = [k \in {} |-> ""]
    /\ sent = NoneSent
    /\ verdict = ""
    /\ zone_db = <<>>
    /\ zone_states = <<>>
    /\ pending = {}
    /\ failed = <<>>
    /\ latest_ok = <<>>
    /\ service_states = <<>>
    /\ image_calls = {}
    /\ iscsi_targets = NoTargets
    /\ host_volumes = <<>>
    /\ fixed_ips = [a \in FixedAddrs |-> FreeIp]
    /\ last = Outcome("init", "ok", "", 0)

\* the directory starts empty, under either setting of the flag
DirInit ==
    /\ instances = <<>>
    /\ volumes = <<>>
    /\ fixed = [a \in FixedAddrs |-> "free"]
    /\ casts = <<>>
    /\ nextInst = 0
    /\ nextVol = 0
    /\ nextRes = 0
    /\ floating = [a \in FloatingAddrs |->
                      [project_id |-> NoProject, instance_id |-> NoInstance]]
    /\ users = [u \in Users |-> "absent"]
    /\ groups = [d \in GroupDNs |-> NoGroup]
    /\ modify_only \in BOOLEAN
    /\ signer = NoSigner
    /\ request = [k \in {} |-> ""]
    /\ sent = NoneSent
    /\ verdict = ""
    /\ zone_db = <<>>
    /\ zone_states = <<>>
    /\ pending = {}
    /\ failed = <<>>
    /\ latest_ok = <<>>
    /\ service_states = <<>>
    /\ image_calls = {}
    /\ iscsi_targets = NoTargets
    /\ host_volumes = <<>>
    /\ fixed_ips = [a \in FixedAddrs |-> FreeIp]
    /\ last = Outcome("init", "ok", "", 0)

\* no Signer yet, and a request with any params
SignInit ==
    /\ instances = <<>>
    /\ volumes = <<>>
    /\ fixed = [a \in FixedAddrs |-> "free"]
    /\ casts = <<>>
    /\ nextInst = 0
    /\ nextVol = 0
    /\ nextRes = 0
    /\ floating = [a \in FloatingAddrs |->
                      [project_id |-> NoProject, instance_id |-> NoInstance]]
    /\ users = [u \in Users |-> "absent"]
    /\ groups = [d \in GroupDNs |-> NoGroup]
    /\ modify_only = FALSE
    /\ signer = NoSigner
    /\ request \in AllParams
    /\ sent = NoneSent
    /\ verdict = ""
    /\ zone_db = <<>>
    /\ zone_states = <<>>
    /\ pending = {}
    /\ failed = <<>>
    /\ latest_ok = <<>>
    /\ service_states = <<>>
    /\ image_calls = {}
    /\ iscsi_targets = NoTargets
    /\ host_volumes = <<>>
    /\ fixed_ips = [a \in FixedAddrs |-> FreeIp]
    /\ last = Outcome("init", "ok", "", 0)

\* a new ZoneManager, over a zone table with any content
ZoneInit ==
    /\ instances = <<>>
    /\ volumes = <<>>
    /\ fixed = [a \in FixedAddrs |-> "free"]
    /\ casts = <<>>
    /\ nextInst = 0
    /\ nextVol = 0
    /\ nextRes = 0
    /\ floating = [a \in FloatingAddrs |->
                      [project_id |-> NoProject, instance_id |-> NoInstance]]
    /\ users = [u \in Users |-> "absent"]
    /\ groups = [d \in GroupDNs |-> NoGroup]
    /\ modify_only = FALSE
    /\ signer = NoSigner
    /\ request = [k \in {} |-> ""]
    /\ sent = NoneSent
    /\ verdict = ""
    /\ zone_db \in ZoneDbs
    /\ zone_states = <<>>
    /\ pending = {}
    /\ failed = <<>>
    /\ latest_ok = <<>>
    /\ service_states = <<>>
    /\ image_calls = {}
    /\ iscsi_targets = NoTargets
    /\ host_volumes = <<>>
    /\ fixed_ips = [a \in FixedAddrs |-> FreeIp]
    /\ last = Outcome("init", "ok", "", 0)

(* --------------------------- create_volume ---------------------------- *)
CreateVolume(ctx) ==
    /\ nextVol < MaxVol
    /\ volumes' = Extend(volumes, nextVol + 1, NewVolume(ctx.project))
    /\ nextVol' = nextVol + 1
    /\ last' = Outcome("create_volume", "ok", "", nextVol + 1)
    /\ UNCHANGED <<instances, fixed, casts, nextInst, nextRes, floating>>
    /\ UNCHANGED <<authVars, signVars, zoneVars, apiVars, hostVars>>

(* ---------------------------- attach_volume --------------------------- *)
DeviceInUseNoCheck(vols, instance_id, device) == FALSE

\* cloud.py:344-346, the loop over every volume of the store
DeviceInUse(vols, instance_id, device) ==
    \E w \in DOMAIN vols :
        vols[w].instance_id = instance_id /\ vols[w].mountpoint = device

Result(result, branch, vols, emitted) ==
    [result |-> result, branch |-> branch, volumes |-> vols,
     emitted |-> emitted]

\* cloud.py:339-360
attach_volume(vols, insts, ctx, v, i, device) ==
    IF ~VolumeFound(vols, ctx, v)
        THEN Result("NotFound", "no volume", vols, <<>>)
    ELSE IF vols[v].status = "attached"
        THEN Result("ApiError", "already attached", vols, <<>>)
    ELSE IF DeviceInUse(vols, i, device)
        THEN Result("ApiError", "device in use", vols, <<>>)
    ELSE LET started == [vols EXCEPT ![v] = start_attach(@, i, device)] IN
         IF ~InstanceFound(insts, ctx, i)
         THEN Result("NotFound", "no instance", started, <<>>)
         ELSE Result("ok", "cast", started,
                     <<Cast(HostTopic(insts[i].node_name), "attach_volume",
                            i, v, device)>>)

AttachVolume(ctx, v, i, device) ==
    \E r \in {attach_volume(volumes, instances, ctx, v, i, device)} :
    /\ Len(casts) + Len(r.emitted) <= MaxCasts
    /\ volumes' = r.volumes
    /\ casts' = casts \o r.emitted
    /\ last' = VolumeOutcome("attach_volume", r, v)
    /\ UNCHANGED <<instances, fixed, nextInst, nextVol, nextRes, floating>>
    /\ UNCHANGED <<authVars, signVars, zoneVars, apiVars, hostVars>>

(* ---------------------------- detach_volume --------------------------- *)
detach_volume_no_blind(vols, insts, ctx, v) ==
    IF ~VolumeFound(vols, ctx, v)
        THEN Result("NotFound", "no volume", vols, <<>>)
    ELSE IF vols[v].instance_id = NoInstance
        THEN Result("Error", "not attached", vols, <<>>)
    ELSE IF vols[v].status = "available"
        THEN Result("Error", "already detached", vols, <<>>)
    ELSE LET started == [vols EXCEPT ![v] = start_detach(@)]
             i == vols[v].instance_id IN
         IF InstanceFound(insts, ctx, i)
         THEN Result("ok", "cast", started,
                     <<Cast(HostTopic(insts[i].node_name), "detach_volume",
                            i, v, NoMountpoint)>>)
         ELSE Result("NotFound", "no instance", started, <<>>)

detach_volume_no_guard(vols, insts, ctx, v) ==
    IF ~VolumeFound(vols, ctx, v)
        THEN Result("NotFound", "no volume", vols, <<>>)
    ELSE LET started == [vols EXCEPT ![v] = start_detach(@)]
             i == vols[v].instance_id IN
         IF InstanceFound(insts, ctx, i)
         THEN Result("ok", "cast", started,
                     <<Cast(HostTopic(insts[i].node_name), "detach_volume",
                            i, v, NoMountpoint)>>)
         ELSE Result("ok", "blind",
                     [started EXCEPT ![v] = finish_detach(@)], <<>>)

\* cloud.py:364-387
detach_volume(vols, insts, ctx, v) ==
    IF ~VolumeFound(vols, ctx, v)
        THEN Result("NotFound", "no volume", vols, <<>>)
    ELSE IF vols[v].instance_id = NoInstance
        THEN Result("Error", "not attached", vols, <<>>)
    ELSE IF vols[v].status = "available"
        THEN Result("Error", "already detached", vols, <<>>)
    ELSE LET started == [vols EXCEPT ![v] = start_detach(@)]
             i == vols[v].instance_id IN
         IF InstanceFound(insts, ctx, i)
         THEN Result("ok", "cast", started,
                     <<Cast(HostTopic(insts[i].node_name), "detach_volume",
                            i, v, NoMountpoint)>>)
         ELSE \* except exception.NotFound: detach blind
              Result("ok", "blind",
                     [started EXCEPT ![v] = finish_detach(@)], <<>>)

DetachVolume(ctx, v) ==
    \E r \in {detach_volume(volumes, instances, ctx, v)} :
    /\ Len(casts) + Len(r.emitted) <= MaxCasts
    /\ volumes' = r.volumes
    /\ casts' = casts \o r.emitted
    /\ last' = VolumeOutcome("detach_volume", r, v)
    /\ UNCHANGED <<instances, fixed, nextInst, nextVol, nextRes, floating>>
    /\ UNCHANGED <<authVars, signVars, zoneVars, apiVars, hostVars>>

(* -------------------------- private addresses ------------------------- *)
FreeAddrs(fx) == {a \in FixedAddrs : fx[a] = "free"}

\* network.allocate_ip: first free address of the range, 0 when exhausted
allocate_ip(fx) ==
    IF FreeAddrs(fx) = {} THEN NoAddress
    ELSE CHOOSE a \in FreeAddrs(fx) : \A b \in FreeAddrs(fx) : a <= b

\* network.deallocate_ip under the caller's try/except: an address that is
\* not allocated raises, and the handler swallows the exception
deallocate_ip(fx, a) ==
    IF a \in FixedAddrs /\ fx[a] = "allocated"
    THEN [fx EXCEPT ![a] = "free"] ELSE fx

(* ---------------------------- run_instances --------------------------- *)
NewInstance(ctx, reservation_id, num, address) ==
    [project_id |-> ctx.project, node_name |-> Unassigned,
     state |-> "pending", reservation_id |-> reservation_id,
     ami_launch_index |-> num, private_dns_name |-> address]

RunCastToHost(i) ==
    Cast(HostTopic("h1"), "run_instance", i, 0, NoMountpoint)

RunCast(i) == Cast(compute_topic, "run_instance", i, 0, NoMountpoint)

\* cloud.py:543-579, one iteration per num in range(max_count)
RECURSIVE RunLoop(_, _, _, _, _)
RunLoop(num, max_count, ctx, reservation_id, st) ==
    IF num >= max_count THEN st
    ELSE LET i == st.nextInst + 1              \* instdir.new()
             address == allocate_ip(st.fixed) IN
         IF address = NoAddress
         THEN [st EXCEPT !.result = "NoMoreAddresses", !.nextInst = i]
         ELSE RunLoop(num + 1, max_count, ctx, reservation_id,
                 [st EXCEPT
                    !.nextInst = i,
                    !.fixed = [@ EXCEPT ![address] = "allocated"],
                    !.instances = Extend(@, i,
                        NewInstance(ctx, reservation_id, num, address)),
                    !.emitted = Append(@, RunCast(i))])

run_instances(insts, fx, ninst, nres, ctx, image_id, key_name, max_count) ==
    LET st0 == [result |-> "ok", instances |-> insts, fixed |-> fx,
                nextInst |-> ninst, emitted |-> <<>>] IN
    IF image_id # vpn_image_id /\ image_id = "ami-missing"
    THEN [st0 EXCEPT !.result = "NotFound"]
    ELSE IF image_id = vpn_image_id
    THEN [st0 EXCEPT !.result = "UnboundLocalError"]
    ELSE IF key_name # "" /\ key_name # "mykey"
    THEN [st0 EXCEPT !.result = "ApiError"]
    ELSE RunLoop(0, max_count, ctx, nres + 1, st0)

RunInstances(ctx, image_id, key_name, max_count) ==
    \E r \in {run_instances(instances, fixed, nextInst, nextRes, ctx,
                             image_id, key_name, max_count)} :
    /\ nextInst + max_count <= MaxInst
    /\ Len(casts) + Len(r.emitted) <= MaxCasts
    /\ instances' = r.instances
    /\ fixed' = r.fixed
    /\ nextInst' = r.nextInst
    /\ nextRes' = IF r.instances # instances THEN nextRes + 1 ELSE nextRes
    /\ casts' = casts \o r.emitted
    /\ last' = Outcome("run_instances", r.result, "", max_count)
    /\ UNCHANGED <<volumes, nextVol, floating>>
    /\ UNCHANGED <<authVars, signVars, zoneVars, apiVars, hostVars>>

(* ------------------------- terminate_instances ------------------------ *)
TerminateCast(node_name, i) ==
    Cast(HostTopic(node_name), "terminate_instance", i, 0, NoMountpoint)

TerminateStepDestroy(st, i) ==
    LET inst == st.instances[i] IN
    [st EXCEPT !.fixed = deallocate_ip(@, inst.private_dns_name),
               !.instances = Remove(@, i),
               !.taken = @ \cup {IF inst.node_name # Unassigned
                                  THEN "c" ELSE "d"},
               !.emitted = IF inst.node_name # Unassigned
                           THEN Append(@, TerminateCast(inst.node_name, i))
                           ELSE @]

TerminateStepNoTry(st, i) ==
    LET inst == st.instances[i] IN
    IF st.fixed[inst.private_dns_name] # "allocated"
    THEN [st EXCEPT !.result = "AddressNotAllocated"]
    ELSE IF inst.node_name # Unassigned
    THEN [st EXCEPT !.fixed = deallocate_ip(@, inst.private_dns_name),
                    !.taken = @ \cup {"c"},
                    !.emitted = Append(@, TerminateCast(inst.node_name, i))]
    ELSE [st EXCEPT !.fixed = deallocate_ip(@, inst.private_dns_name),
                    !.taken = @ \cup {"d"},
                    !.instances = Remove(@, i)]

\* cloud.py:594-613, the body of the loop for an instance that was found.
\* The record carries no public_dns_name, so disassociate_address('bork')
\* raises and the bare except swallows it.
TerminateStep(st, i) ==
    LET inst == st.instances[i]
        fx == IF inst.private_dns_name # NoAddress
              THEN deallocate_ip(st.fixed, inst.private_dns_name)
              ELSE st.fixed IN
    IF inst.node_name # Unassigned
    THEN [st EXCEPT !.fixed = fx, !.taken = @ \cup {"c"},
                    !.emitted = Append(@, TerminateCast(inst.node_name, i))]
    ELSE [st EXCEPT !.fixed = fx, !.taken = @ \cup {"d"},
                    !.instances = Remove(@, i)]

RECURSIVE TerminateLoopStopAtMissing(_, _, _, _)
TerminateLoopStopAtMissing(ids, k, ctx, st) ==
    IF k > Len(ids) \/ st.result # "ok" THEN st
    ELSE IF ~InstanceFound(st.instances, ctx, ids[k]) THEN st
    ELSE TerminateLoopStopAtMissing(ids, k + 1, ctx, TerminateStep(st, ids[k]))

\* cloud.py:587-613; taken collects the branches of the loop body the call
\* went through: an id skipped (s), cast to its host (c) or destroyed (d)
RECURSIVE TerminateLoop(_, _, _, _)
TerminateLoop(ids, k, ctx, st) ==
    IF k > Len(ids) \/ st.result # "ok" THEN st
    ELSE IF ~InstanceFound(st.instances, ctx, ids[k])
    THEN TerminateLoop(ids, k + 1, ctx, [st EXCEPT !.taken = @ \cup {"s"}])
    ELSE TerminateLoop(ids, k + 1, ctx, TerminateStep(st, ids[k]))

terminate_instances(insts, fx, ctx, ids) ==
    TerminateLoop(ids, 1, ctx,
                  [result |-> "ok", instances |-> insts, fixed |-> fx,
                   emitted |-> <<>>, taken |-> {}])

Branches(taken) ==
    (IF "s" \in taken THEN "s" ELSE "")
        \o (IF "c" \in taken THEN "c" ELSE "")
        \o (IF "d" \in taken THEN "d" ELSE "")

TerminateInstances(ctx, ids) ==
    \E r \in {terminate_instances(instances, fixed, ctx, ids)} :
    /\ Len(casts) + Len(r.emitted) <= MaxCasts
    /\ instances' = r.instances
    /\ fixed' = r.fixed
    /\ casts' = casts \o r.emitted
    /\ last' = Outcome("terminate_instances", r.result, Branches(r.taken),
                       Len(r.emitted))
    /\ UNCHANGED <<volumes, nextInst, nextVol, nextRes, floating>>
    /\ UNCHANGED <<authVars, signVars, zoneVars, apiVars, hostVars>>

(* -------------------------- reboot_instances -------------------------- *)
RebootCast(node_name, i) ==
    Cast(HostTopic(node_name), "reboot_instance", i, 0, NoMountpoint)

\* cloud.py:619-623: _get_instance raises NotFound out of the loop
RECURSIVE RebootLoop(_, _, _, _, _)
RebootLoop(ids, k, ctx, insts, emitted) ==
    IF k > Len(ids) THEN [result |-> "ok", emitted |-> emitted]
    ELSE IF ~InstanceFound(insts, ctx, ids[k])
    THEN [result |-> "NotFound", emitted |-> emitted]
    ELSE RebootLoop(ids, k + 1, ctx, insts,
                    Append(emitted, RebootCast(insts[ids[k]].node_name, ids[k])))

reboot_instances(insts, ctx, ids) == RebootLoop(ids, 1, ctx, insts, <<>>)

RebootInstances(ctx, ids) ==
    \E r \in {reboot_instances(instances, ctx, ids)} :
    /\ Len(casts) + Len(r.emitted) <= MaxCasts
    /\ casts' = casts \o r.emitted
    /\ last' = Outcome("reboot_instances", r.result, "", Len(r.emitted))
    /\ UNCHANGED <<instances, volumes, fixed, nextInst, nextVol, nextRes, floating>>
    /\ UNCHANGED <<authVars, signVars, zoneVars, apiVars, hostVars>>

(* ------------------------------ workers ------------------------------- *)
\* messages to one destination are consumed in producer order
Deliverable(k) ==
    /\ k \in 1..Len(casts)
    /\ \A j \in 1..(k - 1) : casts[j].dest # casts[k].dest

Without(k) == [j \in 1..(Len(casts) - 1) |->
                   IF j < k THEN casts[j] ELSE casts[j + 1]]

Delivered(k) ==
    /\ casts' = Without(k)
    /\ last' = Outcome("deliver", "ok", casts[k].method,
                       IF casts[k].volume_id # 0 THEN casts[k].volume_id
                       ELSE casts[k].instance_id)

\* the scheduler hands a run_instance cast of the compute topic to a host,
\* which reports the instance running
ComputeRunInstance(k, h) ==
    /\ Deliverable(k)
    /\ casts[k].method = "run_instance" /\ casts[k].dest = compute_topic
    /\ LET i == casts[k].instance_id IN
       instances' = IF i \in DOMAIN instances
                    THEN [instances EXCEPT ![i].node_name = h,
                                           ![i].state = "running"]
                    ELSE instances
    /\ Delivered(k)
    /\ UNCHANGED <<volumes, fixed, nextInst, nextVol, nextRes, floating>>
    /\ UNCHANGED <<authVars, signVars, zoneVars, apiVars, hostVars>>

ComputeTerminateInstance(k) ==
    /\ Deliverable(k)
    /\ casts[k].method = "terminate_instance"
    /\ \E h \in Hosts : casts[k].dest = HostTopic(h)
    /\ instances' = Remove(instances, casts[k].instance_id)
    /\ Delivered(k)
    /\ UNCHANGED <<volumes, fixed, nextInst, nextVol, nextRes, floating>>
    /\ UNCHANGED <<authVars, signVars, zoneVars, apiVars, hostVars>>

ComputeRebootInstance(k) ==
    /\ Deliverable(k)
    /\ casts[k].method = "reboot_instance"
    /\ \E h \in Hosts : casts[k].dest = HostTopic(h)
    /\ Delivered(k)
    /\ UNCHANGED <<instances, volumes, fixed, nextInst, nextVol, nextRes, floating>>
    /\ UNCHANGED <<authVars, signVars, zoneVars, apiVars, hostVars>>

ComputeAttachVolume(k) ==
    /\ Deliverable(k)
    /\ casts[k].method = "attach_volume"
    /\ \E h \in Hosts : casts[k].dest = HostTopic(h)
    /\ volumes' = [volumes EXCEPT ![casts[k].volume_id] = finish_attach(@)]
    /\ Delivered(k)
    /\ UNCHANGED <<instances, fixed, nextInst, nextVol, nextRes, floating>>
    /\ UNCHANGED <<authVars, signVars, zoneVars, apiVars, hostVars>>

ComputeDetachVolume(k) ==
    /\ Deliverable(k)
    /\ casts[k].method = "detach_volume"
    /\ \E h \in Hosts : casts[k].dest = HostTopic(h)
    /\ volumes' = [volumes EXCEPT ![casts[k].volume_id] = finish_detach(@)]
    /\ Delivered(k)
    /\ UNCHANGED <<instances, fixed, nextInst, nextVol, nextRes, floating>>
    /\ UNCHANGED <<authVars, signVars, zoneVars, apiVars, hostVars>>

\* a cast to compute.unassigned has no consumer and expires on the broker
DropUnrouted(k) ==
    /\ Deliverable(k)
    /\ casts[k].dest = HostTopic(Unassigned)
    /\ casts' = Without(k)
    /\ last' = Outcome("drop", "ok", casts[k].method, casts[k].instance_id)
    /\ UNCHANGED <<instances, volumes, fixed, nextInst, nextVol, nextRes, floating>>
    /\ UNCHANGED <<authVars, signVars, zoneVars, apiVars, hostVars>>

(* --------------------------- public addresses ------------------------- *)
\* PublicNetworkController: an address of the pool is free (no project),
\* allocated to a project, or allocated and associated with an instance
FreeFloating(fl) == {a \in FloatingAddrs : fl[a].project_id = NoProject}

\* network.allocate_ip(user, project, 'public') hands out the first free
\* address of the pool
AllocateFirstFree(fl) ==
    CHOOSE a \in FreeFloating(fl) : \A b \in FreeFloating(fl) : a <= b

AddrResult(result, fl, address) ==
    [result |-> result, floating |-> fl, address |-> address]

allocate_address_any(fl, ctx) ==
    LET a == CHOOSE a \in FloatingAddrs : \A b \in FloatingAddrs : a <= b IN
    AddrResult("ok", [fl EXCEPT ![a].project_id = ctx.project], a)

\* cloud.py:472-476
allocate_address(fl, ctx) ==
    IF FreeFloating(fl) = {}
    THEN AddrResult("NoMoreFloatingIps", fl, NoAddress)
    ELSE LET a == AllocateFirstFree(fl) IN
         AddrResult("ok", [fl EXCEPT ![a].project_id = ctx.project], a)

AllocateAddress(ctx) ==
    \E r \in {allocate_address(floating, ctx)} :
    /\ floating' = r.floating
    /\ last' = Outcome("allocate_address", r.result, "", r.address)
    /\ UNCHANGED <<instances, volumes, fixed, casts, nextInst, nextVol,
                   nextRes>>
    /\ UNCHANGED <<authVars, signVars, zoneVars, apiVars, hostVars>>

\* cloud.py:478-481: the address goes back to the pool whoever calls
release_address(fl, ctx, public_ip) ==
    IF public_ip \notin FloatingAddrs \/ fl[public_ip].project_id = NoProject
    THEN AddrResult("AddressNotAllocated", fl, public_ip)
    ELSE AddrResult("ok",
                    [fl EXCEPT ![public_ip] = [project_id |-> NoProject,
                                               instance_id |-> NoInstance]],
                    public_ip)

ReleaseAddress(ctx, public_ip) ==
    \E r \in {release_address(floating, ctx, public_ip)} :
    /\ floating' = r.floating
    /\ last' = Outcome("release_address", r.result, "", public_ip)
    /\ UNCHANGED <<instances, volumes, fixed, casts, nextInst, nextVol,
                   nextRes>>
    /\ UNCHANGED <<authVars, signVars, zoneVars, apiVars, hostVars>>

\* cloud.py:309-314
AddressFound(fl, ctx, public_ip) ==
    /\ public_ip \in FloatingAddrs
    /\ fl[public_ip].project_id # NoProject
    /\ Visible(ctx, fl[public_ip].project_id)

\* network.associate_address(public_ip, private_ip, instance_id): the
\* address must be allocated and neither side may be associated already
network_associate_address(fl, public_ip, instance_id) ==
    IF public_ip \notin FloatingAddrs \/ fl[public_ip].project_id = NoProject
    THEN AddrResult("AddressNotAllocated", fl, public_ip)
    ELSE IF \/ fl[public_ip].instance_id # NoInstance
            \/ \E b \in FloatingAddrs : fl[b].instance_id = instance_id
    THEN AddrResult("AddressAlreadyAssociated", fl, public_ip)
    ELSE AddrResult("ok", [fl EXCEPT ![public_ip].instance_id = instance_id],
                    public_ip)

\* cloud.py:483-490: only the instance is looked up under the caller's
\* context, the address goes to the network controller as it came
associate_address(fl, insts, ctx, instance_id, public_ip) ==
    IF ~InstanceFound(insts, ctx, instance_id)
    THEN AddrResult("NotFound", fl, public_ip)
    ELSE network_associate_address(fl, public_ip, instance_id)

AssociateAddress(ctx, instance_id, public_ip) ==
    \E r \in {associate_address(floating, instances, ctx, instance_id,
                                public_ip)} :
    /\ floating' = r.floating
    /\ last' = Outcome("associate_address", r.result, "", public_ip)
    /\ UNCHANGED <<instances, volumes, fixed, casts, nextInst, nextVol,
                   nextRes>>
    /\ UNCHANGED <<authVars, signVars, zoneVars, apiVars, hostVars>>

\* cloud.py:492-497
disassociate_address(fl, ctx, public_ip) ==
    IF ~AddressFound(fl, ctx, public_ip)
    THEN AddrResult("NotFound", fl, public_ip)
    ELSE IF fl[public_ip].instance_id = NoInstance
    THEN AddrResult("AddressNotAssociated", fl, public_ip)
    ELSE AddrResult("ok", [fl EXCEPT ![public_ip].instance_id = NoInstance],
                    public_ip)

DisassociateAddress(ctx, public_ip) ==
    \E r \in {disassociate_address(floating, ctx, public_ip)} :
    /\ floating' = r.floating
    /\ last' = Outcome("disassociate_address", r.result, "", public_ip)
    /\ UNCHANGED <<instances, volumes, fixed, casts, nextInst, nextVol,
                   nextRes>>
    /\ UNCHANGED <<authVars, signVars, zoneVars, apiVars, hostVars>>

(* ------------------------- identity directory ------------------------- *)
\* The directory server is outside the sources.  It is modelled as the
\* hierarchical directory the design describes: entries addressed by DN under
\* ou=Users and ou=Groups, subtree search, an entry can be added only under
\* an existing parent and deleted only when it has no child, and a
\* groupOfNames entry must keep at least one member.

IsSuffix(base, dn) ==
    /\ Len(base) <= Len(dn)
    /\ \A k \in 1..Len(base) : base[k] = dn[Len(dn) - Len(base) + k]

\* search_s(dn, SCOPE_SUBTREE): NO_SUCH_OBJECT (no result) without the base
Subtree(gs, base) ==
    IF base \in GroupDNs /\ gs[base].exists
    THEN {d \in GroupDNs : gs[d].exists /\ IsSuffix(base, d)}
    ELSE {}

AllGroups(gs) == {d \in GroupDNs : gs[d].exists}

DirResult(result, us, gs) == [result |-> result, users |-> us, groups |-> gs]

\* add_s
ldap_add(gs, dn, entry) ==
    IF gs[dn].exists THEN [result |-> "ALREADY_EXISTS", groups |-> gs]
    ELSE IF Len(dn) > 1 /\ ~gs[Tail(dn)].exists
    THEN [result |-> "NO_SUCH_OBJECT", groups |-> gs]
    ELSE [result |-> "ok", groups |-> [gs EXCEPT ![dn] = entry]]

\* delete_s
ldap_delete(gs, dn) ==
    IF ~gs[dn].exists THEN [result |-> "NO_SUCH_OBJECT", groups |-> gs]
    ELSE IF \E d \in GroupDNs : gs[d].exists /\ d # dn /\ IsSuffix(dn, d)
    THEN [result |-> "NOT_ALLOWED_ON_NONLEAF", groups |-> gs]
    ELSE [result |-> "ok", groups |-> [gs EXCEPT ![dn] = NoGroup]]

\* modify_s(dn, [(MOD_DELETE, 'member', uid)])
ldap_delete_member(gs, dn, uid) ==
    IF ~gs[dn].exists THEN [result |-> "NO_SUCH_OBJECT", groups |-> gs]
    ELSE IF uid \notin gs[dn].member
    THEN [result |-> "NO_SUCH_ATTRIBUTE", groups |-> gs]
    ELSE IF gs[dn].member = {uid}
    THEN [result |-> "OBJECT_CLASS_VIOLATION", groups |-> gs]
    ELSE [result |-> "ok",
          groups |-> [gs EXCEPT ![dn].member = gs[dn].member \ {uid}]]

\* ldapdriver.py:355-357, 572-585: a user is an entry with all three keys
user_exists(us, uid) == us[uid] = "nova"

\* ldapdriver.py:359-361
ldap_user_exists(us, uid) == us[uid] # "absent"

\* ldapdriver.py:560-569: the project entry named pid, else the default dn
project_to_dn(gs, pid) ==
    LET found == {d \in AllGroups(gs) : d[1] = pid /\ gs[d].owner # NoUser} IN
    IF found # {} THEN CHOOSE d \in found : TRUE ELSE <<pid>>

\* ldapdriver.py:120-124, 363-365
project_exists(gs, pid) ==
    \E d \in Subtree(gs, project_to_dn(gs, pid)) : gs[d].owner # NoUser

\* ldapdriver.py:418-421
group_exists(gs, dn) == Subtree(gs, dn) # {}

\* ldapdriver.py:423-429
role_to_dn(gs, role, project_id) ==
    IF project_id = GlobalScope THEN ldap_role_flag(role)
    ELSE <<role>> \o project_to_dn(gs, project_id)

\* ldapdriver.py:411-416
find_group_dns_with_member(gs, tree, uid) ==
    {d \in Subtree(gs, tree) : uid \in gs[d].member}

\* ldapdriver.py:455-465: result "ok" with the answer, or NotFound
is_in_group(us, gs, uid, group_dn) ==
    IF ~user_exists(us, uid) THEN [result |-> "NotFound", value |-> FALSE]
    ELSE IF ~group_exists(gs, group_dn) THEN [result |-> "ok", value |-> FALSE]
    ELSE [result |-> "ok", value |-> uid \in gs[group_dn].member]

\* ldapdriver.py:146-197
create_user(us, gs, mo, name) ==
    IF user_exists(us, name) THEN DirResult("Duplicate", us, gs)
    ELSE IF mo
    THEN IF ldap_user_exists(us, name)
         THEN DirResult("ok", [us EXCEPT ![name] = "nova"], gs)
         ELSE DirResult("NotFound", us, gs)
    ELSE IF ldap_user_exists(us, name)
    THEN DirResult("ALREADY_EXISTS", us, gs)
    ELSE DirResult("ok", [us EXCEPT ![name] = "nova"], gs)

\* ldapdriver.py:199-232
create_project(us, gs, name, manager_uid, member_uids) ==
    IF project_exists(gs, name) THEN DirResult("Duplicate", us, gs)
    ELSE IF ~user_exists(us, manager_uid) THEN DirResult("NotFound", us, gs)
    ELSE IF \E m \in member_uids : ~user_exists(us, m)
    THEN DirResult("NotFound", us, gs)
    ELSE \* always add the manager as a member because members is required
         LET a == ldap_add(gs, <<name>>,
                           GroupEntry(manager_uid,
                                      member_uids \cup {manager_uid})) IN
         DirResult(a.result, us, a.groups)

\* ldapdriver.py:234-250, with manager_uid given
modify_project(us, gs, project_id, manager_uid) ==
    IF ~user_exists(us, manager_uid) THEN DirResult("NotFound", us, gs)
    ELSE LET dn == project_to_dn(gs, project_id) IN
         IF ~gs[dn].exists THEN DirResult("NO_SUCH_OBJECT", us, gs)
         ELSE DirResult("ok", us, [gs EXCEPT ![dn].owner = manager_uid])

\* ldapdriver.py:467-479
add_to_group(us, gs, uid, group_dn) ==
    IF ~user_exists(us, uid) THEN DirResult("NotFound", us, gs)
    ELSE IF ~group_exists(gs, group_dn) THEN DirResult("NotFound", us, gs)
    ELSE IF is_in_group(us, gs, uid, group_dn).value
    THEN DirResult("Duplicate", us, gs)
    ELSE DirResult("ok", us,
                   [gs EXCEPT ![group_dn].member =
                                  gs[group_dn].member \cup {uid}])

\* ldapdriver.py:431-453, without member_uids
create_group(us, gs, group_dn, uid) ==
    IF group_exists(gs, group_dn) THEN DirResult("Duplicate", us, gs)
    ELSE LET a == ldap_add(gs, group_dn, GroupEntry(NoUser, {uid})) IN
         DirResult(a.result, us, a.groups)

\* ldapdriver.py:523-528
delete_group(gs, group_dn) ==
    IF ~group_exists(gs, group_dn)
    THEN [result |-> "NotFound", groups |-> gs]
    ELSE ldap_delete(gs, group_dn)

safe_remove_keep_group(gs, uid, group_dn) ==
    LET m == ldap_delete_member(gs, group_dn, uid) IN
    IF m.result = "OBJECT_CLASS_VIOLATION"
    THEN [result |-> "ok", groups |-> gs]
    ELSE m

\* ldapdriver.py:498-507
safe_remove_from_group(gs, uid, group_dn) ==
    LET m == ldap_delete_member(gs, group_dn, uid) IN
    IF m.result = "OBJECT_CLASS_VIOLATION" THEN delete_group(gs, group_dn)
    ELSE m

\* ldapdriver.py:495-496, 516-517, 520-521: the loop over the search result,
\* whose order the server chooses; an error ends the loop
RECURSIVE RemoveFromEach(_, _, _)
RemoveFromEach(gs, uid, dns) ==
    IF dns = {} THEN {[result |-> "ok", groups |-> gs]}
    ELSE UNION {LET s == safe_remove_from_group(gs, uid, d) IN
                IF s.result # "ok" THEN {s}
                ELSE RemoveFromEach(s.groups, uid, dns \ {d}) : d \in dns}

remove_from_group_only(us, gs, uid, group_dn) ==
    IF ~group_exists(gs, group_dn) \/ ~user_exists(us, uid)
           \/ ~is_in_group(us, gs, uid, group_dn).value
    THEN {DirResult("NotFound", us, gs)}
    ELSE {DirResult(s.result, us, s.groups) :
            s \in RemoveFromEach(gs, uid, {group_dn})}

\* ldapdriver.py:481-496: the outcomes over the orders of the search result
remove_from_group(us, gs, uid, group_dn) ==
    IF ~group_exists(gs, group_dn) THEN {DirResult("NotFound", us, gs)}
    ELSE IF ~user_exists(us, uid) THEN {DirResult("NotFound", us, gs)}
    ELSE IF ~is_in_group(us, gs, uid, group_dn).value
    THEN {DirResult("NotFound", us, gs)}
    ELSE {DirResult(s.result, us, s.groups) :
            s \in RemoveFromEach(gs, uid,
                      find_group_dns_with_member(gs, group_dn, uid))}

remove_from_all_projects(us, gs, uid) ==
    IF ~user_exists(us, uid) THEN {[result |-> "NotFound", groups |-> gs]}
    ELSE RemoveFromEach(gs, uid,
             {d \in AllGroups(gs) : uid \in gs[d].member /\ Len(d) = 1})

\* ldapdriver.py:509-521: role_project_subtree and ldap_project_subtree are
\* both ou=Groups
remove_from_all(us, gs, uid) ==
    IF ~user_exists(us, uid) THEN {[result |-> "NotFound", groups |-> gs]}
    ELSE UNION {IF s.result # "ok" THEN {s}
                ELSE RemoveFromEach(s.groups, uid,
                         {d \in AllGroups(s.groups) : uid \in s.groups[d].member}) :
                  s \in RemoveFromEach(gs, uid,
                           {d \in AllGroups(gs) : uid \in gs[d].member})}

\* ldapdriver.py:252-255
add_to_project(us, gs, uid, project_id) ==
    add_to_group(us, gs, uid, project_to_dn(gs, project_id))

\* ldapdriver.py:257-260
remove_from_project(us, gs, uid, project_id) ==
    remove_from_group(us, gs, uid, project_to_dn(gs, project_id))

\* ldapdriver.py:262-265
is_in_project(us, gs, uid, project_id) ==
    is_in_group(us, gs, uid, project_to_dn(gs, project_id))

\* ldapdriver.py:267-274
has_role(us, gs, uid, role, project_id) ==
    is_in_group(us, gs, uid, role_to_dn(gs, role, project_id))

add_role_existing_group(us, gs, uid, role, project_id) ==
    add_to_group(us, gs, uid, role_to_dn(gs, role, project_id))

\* ldapdriver.py:276-284
add_role(us, gs, uid, role, project_id) ==
    LET role_dn == role_to_dn(gs, role, project_id) IN
    IF ~group_exists(gs, role_dn) THEN create_group(us, gs, role_dn, uid)
    ELSE add_to_group(us, gs, uid, role_dn)

\* ldapdriver.py:286-289
remove_role(us, gs, uid, role, project_id) ==
    remove_from_group(us, gs, uid, role_to_dn(gs, role, project_id))

delete_user_entry(us, gs, mo, uid) ==
    IF ~user_exists(us, uid) THEN {DirResult("NotFound", us, gs)}
    ELSE {IF s.result # "ok" THEN DirResult(s.result, us, s.groups)
          ELSE DirResult("ok", [us EXCEPT ![uid] = "absent"], s.groups) :
            s \in remove_from_all(us, gs, uid)}

\* ldapdriver.py:310-333
delete_user(us, gs, mo, uid) ==
    IF ~user_exists(us, uid) THEN {DirResult("NotFound", us, gs)}
    ELSE {IF s.result # "ok" THEN DirResult(s.result, us, s.groups)
          ELSE DirResult("ok",
                         [us EXCEPT ![uid] = IF mo THEN "bare" ELSE "absent"],
                         s.groups) :
            s \in remove_from_all(us, gs, uid)}

\* ldapdriver.py:530-533, 405-409: the groups without owner below the project
RECURSIVE DeleteEach(_, _)
DeleteEach(gs, dns) ==
    IF dns = {} THEN {[result |-> "ok", groups |-> gs]}
    ELSE UNION {LET s == delete_group(gs, d) IN
                IF s.result # "ok" THEN {s}
                ELSE DeleteEach(s.groups, dns \ {d}) : d \in dns}

\* ldapdriver.py:335-339
delete_project(us, gs, project_id) ==
    LET project_dn == project_to_dn(gs, project_id) IN
    {LET g == IF s.result # "ok" THEN s ELSE delete_group(s.groups, project_dn)
     IN DirResult(g.result, us, g.groups) :
       s \in DeleteEach(gs, {d \in Subtree(gs, project_dn) :
                               gs[d].owner = NoUser})}

\* ldapdriver.py:109-112: None unless the entry has all three keys
get_user(us, uid) == IF user_exists(us, uid) THEN uid ELSE NoUser

\* what a removal from the group meets: the user is its last member, or is
\* also in a group nested below it
Removal(gs, uid, group_dn) ==
    IF gs[group_dn].exists /\ gs[group_dn].member = {uid} THEN "last"
    ELSE IF find_group_dns_with_member(gs, group_dn, uid) \ {group_dn} # {}
    THEN "nested" ELSE ""

DirStep(op, r, branch) ==
    /\ users' = r.users
    /\ groups' = r.groups
    /\ last' = IF r.result # "ok" /\ r.users = users /\ r.groups = groups
               THEN last \* refused: nothing happened
               ELSE Outcome(op, r.result, branch, 0)
    /\ UNCHANGED <<modify_only, cloudVars, signVars, zoneVars, apiVars, hostVars>>

CreateUser(name) ==
    \E r \in {create_user(users, groups, modify_only, name)} :
        DirStep("create_user", r, "")

DeleteUser(uid) ==
    \E r \in delete_user(users, groups, modify_only, uid) :
        DirStep("delete_user", r,
                IF \E d \in AllGroups(groups) : uid \in groups[d].member
                THEN "member" ELSE "")

CreateProject(name, manager_uid, member_uids) ==
    \E r \in {create_project(users, groups, name, manager_uid, member_uids)} :
        DirStep("create_project", r, "")

ModifyProject(project_id, manager_uid) ==
    \E r \in {modify_project(users, groups, project_id, manager_uid)} :
        DirStep("modify_project", r, "")

AddToProject(uid, project_id) ==
    \E r \in {add_to_project(users, groups, uid, project_id)} :
        DirStep("add_to_project", r, "")

RemoveFromProject(uid, project_id) ==
    \E r \in remove_from_project(users, groups, uid, project_id) :
        DirStep("remove_from_project", r,
                Removal(groups, uid, project_to_dn(groups, project_id)))

AddRole(uid, role, project_id) ==
    \E r \in {add_role(users, groups, uid, role, project_id)} :
        DirStep("add_role", r,
                IF group_exists(groups, role_to_dn(groups, role, project_id))
                THEN "added" ELSE "created")

RemoveRole(uid, role, project_id) ==
    \E r \in remove_role(users, groups, uid, role, project_id) :
        DirStep("remove_role", r,
                Removal(groups, uid, role_to_dn(groups, role, project_id)))

DeleteProject(project_id) ==
    \E r \in delete_project(users, groups, project_id) :
        DirStep("delete_project", r, "")

\* with ldap_user_modify_only an external system provisions the entries
ProvisionEntry(uid) ==
    /\ modify_only
    /\ users[uid] = "absent"
    /\ users' = [users EXCEPT ![uid] = "bare"]
    /\ last' = Outcome("provision", "ok", "", 0)
    /\ UNCHANGED <<groups, modify_only, cloudVars, signVars, zoneVars, apiVars, hostVars>>

(* --------------------------- request signer --------------------------- *)
SignResult(result, sg, params, signature) ==
    [result |-> result, signer |-> sg, params |-> params,
     signature |-> signature]

\* signer.py:88-97
calc_signature_0(sg, params) ==
    IF {"Action", "Timestamp"} \subseteq DOMAIN params
    THEN LET fed == sg.hmac \o params["Action"] \o params["Timestamp"] IN
         SignResult("ok", [sg EXCEPT !.hmac = fed], params,
                    B64(Digest("sha1", sg.secret, fed)))
    ELSE SignResult("KeyError", sg, params, NoSignature)

\* signer.py:99-108
calc_signature_1(sg, params) ==
    LET keys == Sorted(LowerOrder, DOMAIN params)
        fed == sg.hmac \o Concat([i \in 1..Len(keys) |->
                                     keys[i] \o params[keys[i]]])
    IN SignResult("ok", [sg EXCEPT !.hmac = fed], params,
                  B64(Digest("sha1", sg.secret, fed)))

calc_signature_2_unsigned_method(sg, params, verb, server_string, path) ==
    LET with_method ==
            [k \in DOMAIN params \cup {"SignatureMethod"} |->
                IF k = "SignatureMethod" THEN "HmacSHA256" ELSE params[k]]
        keys == Sorted(ByteOrder, DOMAIN params)
        qs == Join("&", [i \in 1..Len(keys) |->
                            Quote(keys[i]) \o "=" \o Quote(params[keys[i]])])
        fed == sg.hmac_256 \o verb \o "\n" \o server_string \o "\n" \o path
                   \o "\n" \o qs
    IN SignResult("ok", [sg EXCEPT !.hmac_256 = fed], with_method,
                  B64(Digest("sha256", sg.secret, fed)))

\* signer.py:110-133: hashlib.sha256 exists, so the first branch is taken
calc_signature_2(sg, params, verb, server_string, path) ==
    LET with_method ==
            [k \in DOMAIN params \cup {"SignatureMethod"} |->
                IF k = "SignatureMethod" THEN "HmacSHA256" ELSE params[k]]
        keys == Sorted(ByteOrder, DOMAIN with_method)
        qs == Join("&", [i \in 1..Len(keys) |->
                            Quote(keys[i]) \o "=" \o Quote(with_method[keys[i]])])
        string_to_sign ==
            verb \o "\n" \o server_string \o "\n" \o path \o "\n" \o qs
        fed == sg.hmac_256 \o string_to_sign
    IN SignResult("ok", [sg EXCEPT !.hmac_256 = fed], with_method,
                  B64(Digest("sha256", sg.secret, fed)))

\* signer.py:70-77: the last line reads self.SignatureVersion, which no
\* Signer has
generate(sg, params, verb, server_string, path) ==
    IF "SignatureVersion" \notin DOMAIN params
    THEN SignResult("KeyError", sg, params, NoSignature)
    ELSE IF params["SignatureVersion"] = "0" THEN calc_signature_0(sg, params)
    ELSE IF params["SignatureVersion"] = "1" THEN calc_signature_1(sg, params)
    ELSE IF params["SignatureVersion"] = "2"
    THEN calc_signature_2(sg, params, verb, server_string, path)
    ELSE SignResult("AttributeError", sg, params, NoSignature)

\* the verifier: a new Signer for the secret recomputes the signature over
\* the params it received and compares
verify(secret, params, verb, server_string, path, signature) ==
    LET r == generate(NewSignerObject(secret), params, verb, server_string,
                      path)
    IN IF r.result # "ok" THEN r.result
       ELSE IF r.signature = signature THEN "accepted" ELSE "rejected"

VersionOf(params) ==
    IF "SignatureVersion" \in DOMAIN params THEN params["SignatureVersion"]
    ELSE ""

SignStep(op, result, branch, arg) ==
    /\ last' = Outcome(op, result, branch, arg)
    /\ UNCHANGED <<cloudVars, authVars, zoneVars, apiVars, hostVars>>

\* Signer(secret_key)
NewSigner(secret_key) ==
    /\ signer' = NewSignerObject(secret_key)
    /\ UNCHANGED <<request, sent, verdict>>
    /\ SignStep("Signer", "ok", "", 0)

\* signer.generate(params, verb, server_string, path): the dict is the
\* caller's and the request goes out with the signature
Generate ==
    /\ signer.made
    /\ signer.calls < MaxCalls
    /\ \E r \in {generate(signer, request, Verb, ServerString, Path)} :
        /\ signer' = [r.signer EXCEPT !.calls = signer.calls + 1]
        /\ request' = r.params
        /\ sent' = IF r.result = "ok"
                   THEN [made |-> TRUE, signature |-> r.signature,
                         secret |-> signer.secret, call |-> signer.calls + 1]
                   ELSE sent
        /\ verdict' = ""
        /\ SignStep("generate", r.result, VersionOf(request),
                    signer.calls + 1)

\* the receiving side checks the request against the secret it holds
Verify(secret) ==
    /\ sent.made
    /\ verdict' = verify(secret, request, Verb, ServerString, Path,
                         sent.signature)
    /\ UNCHANGED <<signer, request, sent>>
    /\ SignStep("verify", verdict', VersionOf(request), sent.call)

(* ---------------------------- zone manager ---------------------------- *)
\* zone_manager.py:40-47; zone_id, api_url, username and password are set by
\* update_credentials
NewZoneState ==
    [is_active |-> TRUE, name |-> NoName, capabilities |-> NoName,
     attempt |-> 0, last_seen |-> "min", last_exception |-> NoException,
     last_exception_time |-> "", zone_id |-> 0, api_url |-> "",
     username |-> "", password |-> ""]

\* zone_manager.py:49-54
update_credentials(state, id, zone) ==
    [state EXCEPT !.zone_id = id, !.api_url = zone.api_url,
                  !.username = zone.username, !.password = zone.password]

update_metadata_only(state, zone_metadata) ==
    [state EXCEPT !.last_seen = "now", !.attempt = 0,
                  !.name = zone_metadata.name,
                  !.capabilities = zone_metadata.capabilities]

\* zone_manager.py:56-63
update_metadata(state, zone_metadata) ==
    [state EXCEPT !.last_seen = "now", !.attempt = 0,
                  !.name = zone_metadata.name,
                  !.capabilities = zone_metadata.capabilities,
                  !.is_active = TRUE]

log_error_offline(state, exception) ==
    [state EXCEPT !.last_exception = exception,
                  !.last_exception_time = "now",
                  !.attempt = @ + 1,
                  !.is_active = FALSE]

log_error_late(state, exception) ==
    [state EXCEPT !.last_exception = exception,
                  !.last_exception_time = "now",
                  !.attempt = state.attempt + 1,
                  !.is_active = IF state.attempt + 1 > zone_failures_to_offline
                                THEN FALSE ELSE state.is_active]

\* zone_manager.py:70-85
log_error(state, exception) ==
    [state EXCEPT !.last_exception = exception,
                  !.last_exception_time = "now",
                  !.attempt = state.attempt + 1,
                  !.is_active = IF state.attempt + 1 >= zone_failures_to_offline
                                THEN FALSE ELSE state.is_active]

refresh_from_db_no_cleanup(states, db) ==
    [z \in DOMAIN states \cup DOMAIN db |->
        IF z \in DOMAIN db
        THEN update_credentials(IF z \in DOMAIN states THEN states[z]
                                ELSE NewZoneState, z, db[z])
        ELSE states[z]]

\* zone_manager.py:139-155: add and update from the table, then delete the
\* zones the table no longer has
refresh_from_db(states, db) ==
    LET updated == [z \in DOMAIN states \cup DOMAIN db |->
                       IF z \in DOMAIN db
                       THEN update_credentials(
                                IF z \in DOMAIN states THEN states[z]
                                ELSE NewZoneState, z, db[z])
                       ELSE states[z]]
    IN [z \in {k \in DOMAIN updated : k \in DOMAIN db} |-> updated[z]]

\* timedelta.seconds: the seconds of a timedelta without its days
seconds(diff) == diff.seconds

\* the time a timedelta stands for, in seconds
total_seconds(diff) == diff.days * SecondsPerDay + diff.seconds

\* zone_manager.py:161-168: diff is datetime.now() - last_zone_db_check, and
\* the map is reconciled when diff.seconds has reached
\* FLAGS.zone_db_check_interval; every zone of the map is then polled
ping(states, db, diff) ==
    IF seconds(diff) >= zone_db_check_interval
    THEN refresh_from_db(states, db) ELSE states

poll_zones_active(states) == {z \in DOMAIN states : states[z].is_active}

\* zone_manager.py:157-159: one worker for every ZoneState of the map
poll_zones(states) == DOMAIN states

ZoneStep(op, branch, arg) ==
    /\ last' = Outcome(op, "ok", branch, arg)
    /\ UNCHANGED <<cloudVars, authVars, signVars, apiVars, hostVars>>

\* the zone table changes behind the manager
DbCreateZone(z, zone) ==
    /\ z \notin DOMAIN zone_db
    /\ zone_db' = [k \in DOMAIN zone_db \cup {z} |->
                      IF k = z THEN zone ELSE zone_db[k]]
    /\ UNCHANGED <<zone_states, pending, failed, latest_ok, service_states>>
    /\ ZoneStep("zone_create", "", z)

DbUpdateZone(z, zone) ==
    /\ z \in DOMAIN zone_db
    /\ zone_db[z] # zone
    /\ zone_db' = [zone_db EXCEPT ![z] = zone]
    /\ UNCHANGED <<zone_states, pending, failed, latest_ok, service_states>>
    /\ ZoneStep("zone_update", "", z)

DbDeleteZone(z) ==
    /\ z \in DOMAIN zone_db
    /\ zone_db' = [k \in DOMAIN zone_db \ {z} |-> zone_db[k]]
    /\ UNCHANGED <<zone_states, pending, failed, latest_ok, service_states>>
    /\ ZoneStep("zone_delete", "", z)

\* zone_manager.py:161-168: the workers of the pool run after ping returns,
\* so the polls that an earlier ping issued may still be in flight; a poll
\* in flight for a zone that was deleted acts on a ZoneState that is no
\* longer in the map
Ping(diff) ==
    \E states \in {ping(zone_states, zone_db, diff)},
       due \in {seconds(diff) >= zone_db_check_interval} :
        /\ zone_states' = states
        /\ pending' = {<<p[1], "earlier">> :
                          p \in {q \in pending : q[1] \in DOMAIN states}}
                       \cup {<<z, "latest">> : z \in poll_zones(states)}
        /\ failed' = [z \in DOMAIN states |->
                         IF z \in DOMAIN failed THEN failed[z] ELSE 0]
        /\ latest_ok' = [z \in DOMAIN states |-> FALSE]
        /\ UNCHANGED <<zone_db, service_states>>
        /\ ZoneStep(IF due THEN "refresh" ELSE "ping",
                    IF ~due THEN ""
                    ELSE IF DOMAIN zone_states \ DOMAIN zone_db # {}
                    THEN "removed"
                    ELSE IF DOMAIN zone_db \ DOMAIN zone_states # {}
                    THEN "added" ELSE "", 0)

\* zone_manager.py:94-100: the call to the child zone returned
PollZoneOk(z, issue, zone_metadata) ==
    /\ <<z, issue>> \in pending
    /\ zone_states' = [zone_states EXCEPT
                          ![z] = update_metadata(zone_states[z], zone_metadata)]
    /\ pending' = pending \ {<<z, issue>>}
    /\ failed' = [failed EXCEPT ![z] = 0]
    /\ latest_ok' = [latest_ok EXCEPT ![z] = (issue = "latest") \/ @]
    /\ UNCHANGED <<zone_db, service_states>>
    /\ ZoneStep("poll_ok",
                IF zone_states[z].is_active THEN "active" ELSE "inactive", z)

\* zone_manager.py:94-100: the call to the child zone raised
PollZoneFailed(z, issue, exception) ==
    /\ <<z, issue>> \in pending
    /\ zone_states[z].attempt < MaxAttempt
    /\ zone_states' = [zone_states EXCEPT
                          ![z] = log_error(zone_states[z], exception)]
    /\ pending' = pending \ {<<z, issue>>}
    /\ failed' = [failed EXCEPT ![z] = failed[z] + 1]
    /\ latest_ok' = [latest_ok EXCEPT ![z] = (issue # "latest") /\ @]
    /\ UNCHANGED <<zone_db, service_states>>
    /\ ZoneStep("poll_failed", issue, z)

\* zone_manager.py:170-176: the host's latest capabilities replace its
\* earlier ones
update_service_capabilities(states, service_name, host, capabilities) ==
    LET service_caps == IF service_name \in DOMAIN states
                        THEN states[service_name] ELSE <<>>
        updated == [h \in DOMAIN service_caps \cup {host} |->
                       IF h = host THEN capabilities ELSE service_caps[h]]
    IN  [s \in DOMAIN states \cup {service_name} |->
            IF s = service_name THEN updated ELSE states[s]]

\* zone_manager.py:118-121: the items of service_dict. Without a service it
\* is service_states; with one it is dict(service_name=service, hosts=...),
\* whose item 'service_name' has a string for its value
service_dict(states, service) ==
    IF service # NoService
    THEN {[key |-> "service_name", is_dict |-> FALSE, hosts |-> <<>>],
          [key |-> "hosts", is_dict |-> TRUE,
           hosts |-> IF service \in DOMAIN states
                     THEN states[service] ELSE <<>>]}
    ELSE {[key |-> s, is_dict |-> TRUE, hosts |-> states[s]] :
             s \in DOMAIN states}

\* "%s_%s" % (service_name, cap)
CapKey(service_name, cap) == service_name \o "_" \o cap

MinOf(values) == CHOOSE v \in values : \A w \in values : v <= w

MaxOf(values) == CHOOSE v \in values : \A w \in values : v >= w

\* the values that the loops of zone_manager.py:127-135 meet for one key
ValuesFor(items, key) ==
    {it.hosts[h][cap] : <<it, h, cap>> \in
        {x \in items \X HostNames \X Caps :
            /\ x[2] \in DOMAIN x[1].hosts
            /\ x[3] \in DOMAIN x[1].hosts[x[2]]
            /\ CapKey(x[1].key, x[3]) = key}}

CapResult(result, combined) == [result |-> result, combined |-> combined]

\* zone_manager.py:115-137: host_dict.iteritems() is called on the value of
\* every item of service_dict; a string has no iteritems
get_zone_capabilities(states, service) ==
    LET items == service_dict(states, service)
        keys == {CapKey(it.key, cap) : <<it, cap>> \in
                    {x \in items \X Caps :
                        \E h \in DOMAIN x[1].hosts :
                            x[2] \in DOMAIN x[1].hosts[h]}}
    IN  IF \E it \in items : ~it.is_dict
        THEN CapResult("AttributeError", <<>>)
        ELSE CapResult("ok",
                 [key \in keys |-> <<MinOf(ValuesFor(items, key)),
                                     MaxOf(ValuesFor(items, key))>>])

UpdateServiceCapabilities(service_name, host, capabilities) ==
    /\ service_states' = update_service_capabilities(
                              service_states, service_name, host, capabilities)
    /\ service_states' # service_states
    /\ UNCHANGED <<zone_db, zone_states, pending, failed, latest_ok>>
    /\ ZoneStep("update_service_capabilities", "", 0)

GetZoneCapabilities(service) ==
    \E r \in {get_zone_capabilities(service_states, service)} :
        /\ last' = Outcome("get_zone_capabilities", r.result, service, 0)
        /\ UNCHANGED <<cloudVars, authVars, signVars, zoneVars, apiVars, hostVars>>

(* ------------------------------ describe ------------------------------ *)
\* cloud.py:271-294; an administrator sees the status with the instance id
\* and the mountpoint in it
format_volume(ctx, v, volume) ==
    [volumeId |-> v,
     status |-> IF ctx.admin
                THEN <<volume.status, volume.instance_id, volume.mountpoint>>
                ELSE <<volume.status>>,
     attachmentSet |-> IF volume.attach_status = "attached"
                       THEN <<volume.mountpoint, volume.instance_id>>
                       ELSE <<>>]

\* cloud.py:262-269
describe_volumes(vols, ctx) ==
    {format_volume(ctx, v, vols[v]) :
        v \in {w \in DOMAIN vols : Visible(ctx, vols[w].project_id)}}

\* network.get_public_ip_for_instance
get_public_ip_for_instance(fl, i) ==
    IF \E a \in FloatingAddrs : fl[a].instance_id = i
    THEN CHOOSE a \in FloatingAddrs : fl[a].instance_id = i
    ELSE NoAddress

\* instdir.all for an administrator, instdir.by_project otherwise
instgenerator(insts, ctx) ==
    IF ctx.admin THEN DOMAIN insts
    ELSE {i \in DOMAIN insts : insts[i].project_id = ctx.project}

\* cloud.py:413-435, one entry of an instances_set. No instance carries the
\* VPN image, so the skip of cloud.py:410-412 never applies
format_instance(insts, fl, ctx, i) ==
    LET public == get_public_ip_for_instance(fl, i) IN
    [instance_id |-> i,
     instance_state |-> insts[i].state,
     public_dns_name |-> IF public = NoAddress
                         THEN insts[i].private_dns_name ELSE public,
     private_dns_name |-> insts[i].private_dns_name,
     key_name |-> IF ctx.admin
                  THEN <<insts[i].project_id, insts[i].node_name>> ELSE <<>>,
     ami_launch_index |-> insts[i].ami_launch_index]

\* cloud.py:400-447: one reservation per reservation id
format_instances(insts, fl, ctx) ==
    {[reservation_id |-> res_id,
      owner_id |-> {insts[i].project_id :
                      i \in {j \in instgenerator(insts, ctx) :
                                insts[j].reservation_id = res_id}},
      instances_set |-> {format_instance(insts, fl, ctx, i) :
                           i \in {j \in instgenerator(insts, ctx) :
                                     insts[j].reservation_id = res_id}}] :
        res_id \in {insts[i].reservation_id : i \in instgenerator(insts, ctx)}}

\* cloud.py:396-398
describe_instances(insts, fl, ctx) == format_instances(insts, fl, ctx)

\* network.host_objs: the addresses that are allocated, of every project
host_objs(fl) == {a \in FloatingAddrs : fl[a].project_id # NoProject}

\* cloud.py:453-470: every address of host_objs is listed, whoever asks
format_addresses(fl, ctx) ==
    {[public_ip |-> a,
      instance_id |-> IF ctx.admin
                      THEN <<fl[a].instance_id, fl[a].project_id>>
                      ELSE <<fl[a].instance_id>>] : a \in host_objs(fl)}

\* cloud.py:449-451
describe_addresses(fl, ctx) == format_addresses(fl, ctx)

(* --------------------------- security groups -------------------------- *)
\* cloud.py:233-238
describe_security_groups(ctx, group_names) == [securityGroupSet |-> <<>>]

\* cloud.py:240-242
create_security_group(ctx, group_name) == TRUE

\* cloud.py:244-246
delete_security_group(ctx, group_name) == TRUE

ApiStep(op, result, arg) ==
    /\ last' = Outcome(op, result, "", arg)
    /\ UNCHANGED <<cloudVars, authVars, signVars, zoneVars, hostVars>>

DescribeSecurityGroups(ctx) ==
    \E r \in {describe_security_groups(ctx, <<>>)} :
        /\ UNCHANGED image_calls
        /\ ApiStep("describe_security_groups", "ok", "")

CreateSecurityGroup(ctx, group_name) ==
    \E r \in {create_security_group(ctx, group_name)} :
        /\ UNCHANGED image_calls
        /\ ApiStep("create_security_group", IF r THEN "ok" ELSE "", group_name)

DeleteSecurityGroup(ctx, group_name) ==
    \E r \in {delete_security_group(ctx, group_name)} :
        /\ UNCHANGED image_calls
        /\ ApiStep("delete_security_group", IF r THEN "ok" ELSE "", group_name)

(* ----------------------- modify_image_attribute ----------------------- *)
ImageResult(result, calls) == [result |-> result, image_calls |-> calls]

\* images.modify(context, image_id, operation_type)
images_modify(calls, image_id, operation_type) ==
    calls \cup {<<image_id, operation_type>>}

\* cloud.py:671-681 with the guards as written: the second one rejects only
\* a list that has not one element and whose first element is not 'all',
\* and an empty list has no first element
modify_image_attribute(calls, ctx, image_id, attribute, operation_type, user_group) ==
    IF attribute # "launchPermission"
    THEN ImageResult("ApiError", calls)
    ELSE IF Len(user_group) # 1 /\ Len(user_group) = 0
    THEN ImageResult("IndexError", calls)
    ELSE IF Len(user_group) # 1 /\ user_group[1] # "all"
    THEN ImageResult("ApiError", calls)
    ELSE IF operation_type \notin {"add", "remove"}
    THEN ImageResult("ApiError", calls)
    ELSE ImageResult("ok", images_modify(calls, image_id, operation_type))

ModifyImageAttribute(ctx, image_id, attribute, operation_type, user_group) ==
    \E r \in {modify_image_attribute(image_calls, ctx, image_id, attribute,
                                      operation_type, user_group)} :
        /\ image_calls' = r.image_calls
        /\ ApiStep("modify_image_attribute", r.result, user_group)

(* --------------------------- specifications --------------------------- *)
IdLists == UNION {[1..n -> InstIds] : n \in 0..MaxCount}

\* launches with every kind of input, single terminations and the workers
RunNext ==
    \/ \E ctx \in Contexts, im \in Images, kn \in KeyNames, n \in 0..MaxCount :
          RunInstances(ctx, im, kn, n)
    \/ \E ctx \in Contexts, i \in InstIds : TerminateInstances(ctx, <<i>>)
    \/ \E k \in 1..MaxCasts, h \in Hosts : ComputeRunInstance(k, h)
    \/ \E k \in 1..MaxCasts : ComputeTerminateInstance(k)

\* terminations of every id list, over instances launched one at a time
TermNext ==
    \/ \E ctx \in Contexts : RunInstances(ctx, "ami-1", "", 1)
    \/ \E ctx \in Contexts, ids \in IdLists : TerminateInstances(ctx, ids)
    \/ \E k \in 1..MaxCasts, h \in Hosts : ComputeRunInstance(k, h)
    \/ \E k \in 1..MaxCasts : ComputeTerminateInstance(k)

\* reboots of every id list, over instances launched one at a time
RebootNext ==
    \/ \E ctx \in Contexts : RunInstances(ctx, "ami-1", "", 1)
    \/ \E ctx \in Contexts, ids \in IdLists : RebootInstances(ctx, ids)
    \/ \E k \in 1..MaxCasts, h \in Hosts : ComputeRunInstance(k, h)
    \/ \E k \in 1..MaxCasts : ComputeRebootInstance(k)
    \/ \E k \in 1..MaxCasts : DropUnrouted(k)

\* volumes belong to project p1; the instance may belong to either project
VolContexts == {c \in Contexts : c.project = "p1"}

VolNext ==
    \/ \E ctx \in VolContexts : CreateVolume(ctx)
    \/ \E ctx \in VolContexts, v \in VolIds, i \in InstIds, d \in Devices :
          AttachVolume(ctx, v, i, d) /\ Len(casts') <= MaxVolCasts
    \/ \E ctx \in VolContexts, v \in VolIds :
          DetachVolume(ctx, v) /\ Len(casts') <= MaxVolCasts
    \/ \E ctx \in Contexts :
          /\ nextInst < MaxVolInst
          /\ RunInstances(ctx, "ami-1", "", 1)
          /\ Len(casts') <= MaxVolCasts
    \/ \E ctx \in Contexts, i \in InstIds :
          TerminateInstances(ctx, <<i>>) /\ Len(casts') <= MaxVolCasts
    \/ \E k \in 1..MaxCasts, h \in Hosts : ComputeRunInstance(k, h)
    \/ \E k \in 1..MaxCasts : ComputeTerminateInstance(k)
    \/ \E k \in 1..MaxCasts : ComputeAttachVolume(k)
    \/ \E k \in 1..MaxCasts : ComputeDetachVolume(k)

\* the address verbs, over instances launched one at a time
AddrNext ==
    \/ \E ctx \in Contexts : AllocateAddress(ctx)
    \/ \E ctx \in Contexts, a \in FloatingAddrs : ReleaseAddress(ctx, a)
    \/ \E ctx \in Contexts, i \in InstIds, a \in FloatingAddrs :
          AssociateAddress(ctx, i, a)
    \/ \E ctx \in Contexts, a \in FloatingAddrs : DisassociateAddress(ctx, a)
    \/ \E ctx \in Contexts : RunInstances(ctx, "ami-1", "", 1)
    \/ \E ctx \in Contexts, i \in InstIds : TerminateInstances(ctx, <<i>>)

SpecRun == Init /\ [][RunNext]_vars

SpecAddr == Init /\ [][AddrNext]_vars

Scopes == ProjectIds \cup {GlobalScope}

\* the driver's operations on users, projects and roles
DirNext ==
    \/ \E u \in Users : CreateUser(u)
    \/ \E u \in Users : DeleteUser(u)
    \/ \E p \in ProjectIds, u \in Users, ms \in SUBSET Users :
          CreateProject(p, u, ms)
    \/ \E p \in ProjectIds, u \in Users : ModifyProject(p, u)
    \/ \E p \in ProjectIds, u \in Users : AddToProject(u, p)
    \/ \E p \in ProjectIds, u \in Users : RemoveFromProject(u, p)
    \/ \E u \in Users, r \in Roles, p \in Scopes : AddRole(u, r, p)
    \/ \E u \in Users, r \in Roles, p \in Scopes : RemoveRole(u, r, p)
    \/ \E p \in ProjectIds : DeleteProject(p)
    \/ \E u \in Users : ProvisionEntry(u)

SpecDir == DirInit /\ [][DirNext]_vars

\* the operations that create users and change a project's members or manager
ProjNext ==
    \/ \E u \in Users : CreateUser(u)
    \/ \E u \in Users : DeleteUser(u)
    \/ \E p \in ProjectIds, u \in Users, ms \in SUBSET Users :
          CreateProject(p, u, ms)
    \/ \E p \in ProjectIds, u \in Users : ModifyProject(p, u)
    \/ \E p \in ProjectIds, u \in Users : AddToProject(u, p)
    \/ \E p \in ProjectIds, u \in Users : RemoveFromProject(u, p)

SpecProj == DirInit /\ [][ProjNext]_vars

\* one side signs requests with a Signer object, the other side verifies
SignNext ==
    \/ \E s \in Secrets : NewSigner(s)
    \/ Generate
    \/ \E s \in Secrets : Verify(s)

SpecSign == SignInit /\ [][SignNext]_vars

Exceptions == {"timeout"}

\* a poll in flight was issued by the latest ping or by an earlier one
Issues == {"latest", "earlier"}

\* the zone table changes, the manager is pinged, and the polls come back
ZoneNext ==
    \/ \E z \in ZoneIds, zone \in ZoneRecords : DbCreateZone(z, zone)
    \/ \E z \in ZoneIds, zone \in ZoneRecords : DbUpdateZone(z, zone)
    \/ \E z \in ZoneIds : DbDeleteZone(z)
    \/ \E diff \in Elapsed : Ping(diff)
    \/ \E z \in ZoneIds, n \in Issues, md \in ZoneMetadata :
          PollZoneOk(z, n, md)
    \/ \E z \in ZoneIds, n \in Issues, e \in Exceptions :
          PollZoneFailed(z, n, e)

SpecZone == ZoneInit /\ [][ZoneNext]_vars

\* the services report their capabilities and the roll-up is asked for
CapsNext ==
    \/ \E s \in Services, h \in HostNames, caps \in CapDicts :
          UpdateServiceCapabilities(s, h, caps)
    \/ \E s \in Services \cup {NoService} : GetZoneCapabilities(s)

SpecCaps == Init /\ [][CapsNext]_vars

\* the stateless handlers of the API and the calls to the image service
ApiNext ==
    \/ \E ctx \in Contexts : DescribeSecurityGroups(ctx)
    \/ \E ctx \in Contexts, g \in GroupNames : CreateSecurityGroup(ctx, g)
    \/ \E ctx \in Contexts, g \in GroupNames : DeleteSecurityGroup(ctx, g)
    \/ \E ctx \in Contexts, im \in Images, at \in Attributes,
          op \in OperationTypes, ug \in UserGroupLists :
          ModifyImageAttribute(ctx, im, at, op, ug)

SpecApi == Init /\ [][ApiNext]_vars

SpecTerm == Init /\ [][TermNext]_vars

SpecReboot == Init /\ [][RebootNext]_vars

\* the volume verbs, with the instance verbs they depend on
SpecVol == Init /\ [][VolNext]_vars
(* ---------------- volume hosts: the target-slot table ------------------ *)
HostResult(result, targets, vols) ==
    [result |-> result, iscsi_targets |-> targets, host_volumes |-> vols]

\* db.volume_create as the volume tests call it: a row in state creating
volume_create(targets, vols, volume_id, host) ==
    IF volume_id \in DOMAIN vols THEN HostResult("Duplicate", targets, vols)
    ELSE HostResult("ok", targets,
                    vols @@ (volume_id :> [host |-> host, status |-> "creating",
                                           iscsi_target_num |-> NoTarget]))

FreeTargets(targets, host) ==
    {t \in TargetNums : targets[host][t] = NoVolume}

\* slot assignment without the look at the table: the first number, used or not
volume_allocate_iscsi_target_unchecked(targets, vols, volume_id) ==
    LET host == vols[volume_id].host IN
    HostResult("ok", [targets EXCEPT ![host][1] = volume_id],
               [vols EXCEPT ![volume_id].iscsi_target_num = 1])

\* slot assignment, one transaction on the table of the volume's host: the
\* lowest unused number, NoMoreTargets when every number is in use
volume_allocate_iscsi_target(targets, vols, volume_id) ==
    LET host == vols[volume_id].host
        free == FreeTargets(targets, host) IN
    IF free = {}
    THEN HostResult("NoMoreTargets", targets,
                    [vols EXCEPT ![volume_id].status = "error"])
    ELSE LET t == CHOOSE n \in free : \A m \in free : n <= m IN
         HostResult("ok", [targets EXCEPT ![host][t] = volume_id],
                    [vols EXCEPT ![volume_id].iscsi_target_num = t])

\* db.volume_destroy: the row goes and the slots it held are unused again
volume_destroy(targets, vols, volume_id) ==
    HostResult("ok",
               [h \in VolumeHosts |->
                  [t \in TargetNums |->
                     IF targets[h][t] = volume_id THEN NoVolume
                     ELSE targets[h][t]]],
               [v \in DOMAIN vols \ {volume_id} |-> vols[v]])

HostStep(op, r, branch) ==
    /\ iscsi_targets' = r.iscsi_targets
    /\ host_volumes' = r.host_volumes
    /\ last' = Outcome(op, r.result, branch, 0)
    /\ UNCHANGED <<cloudVars, authVars, signVars, zoneVars, apiVars, fixed_ips>>

\* the request is accepted: the row exists, the host has not acted yet
VolumeCreate(volume_id, host) ==
    /\ volume_id \notin DOMAIN host_volumes
    /\ \E r \in {volume_create(iscsi_targets, host_volumes, volume_id, host)} :
           HostStep("volume_create", r, host)

\* create_volume on the host, first half: the export gets its slot
CreateVolumeExport(volume_id) ==
    /\ volume_id \in DOMAIN host_volumes
    /\ host_volumes[volume_id].status = "creating"
    /\ host_volumes[volume_id].iscsi_target_num = NoTarget
    /\ \E r \in {volume_allocate_iscsi_target(iscsi_targets, host_volumes,
                                              volume_id)} :
           HostStep("create_volume", r, host_volumes[volume_id].host)

\* create_volume on the host, second half: the volume becomes available
CreateVolumeDone(volume_id) ==
    /\ volume_id \in DOMAIN host_volumes
    /\ host_volumes[volume_id].status = "creating"
    /\ host_volumes[volume_id].iscsi_target_num # NoTarget
    /\ HostStep("create_volume_done",
                HostResult("ok", iscsi_targets,
                           [host_volumes EXCEPT ![volume_id].status = "available"]),
                host_volumes[volume_id].host)

\* delete_volume on the host, first half
DeleteVolumeStart(volume_id) ==
    /\ volume_id \in DOMAIN host_volumes
    /\ host_volumes[volume_id].status = "available"
    /\ HostStep("delete_volume",
                HostResult("ok", iscsi_targets,
                           [host_volumes EXCEPT ![volume_id].status = "deleting"]),
                host_volumes[volume_id].host)

\* the driver answers VolumeIsBusy: the volume stays, available again
DeleteVolumeBusy(volume_id) ==
    /\ volume_id \in DOMAIN host_volumes
    /\ host_volumes[volume_id].status = "deleting"
    /\ HostStep("delete_volume",
                HostResult("VolumeIsBusy", iscsi_targets,
                           [host_volumes EXCEPT ![volume_id].status = "available"]),
                host_volumes[volume_id].host)

\* delete_volume, second half, and the clean-up of a volume in state error
VolumeDestroy(volume_id) ==
    /\ volume_id \in DOMAIN host_volumes
    /\ host_volumes[volume_id].status \in {"deleting", "error"}
    /\ \E r \in {volume_destroy(iscsi_targets, host_volumes, volume_id)} :
           HostStep("volume_destroy", r, host_volumes[volume_id].host)

\* creates and deletes of several volumes, their halves in any interleaving
TargetsNext ==
    \/ \E v \in HostVolumeIds, h \in VolumeHosts : VolumeCreate(v, h)
    \/ \E v \in HostVolumeIds : CreateVolumeExport(v)
    \/ \E v \in HostVolumeIds : CreateVolumeDone(v)
    \/ \E v \in HostVolumeIds : DeleteVolumeStart(v)
    \/ \E v \in HostVolumeIds : DeleteVolumeBusy(v)
    \/ \E v \in HostVolumeIds : VolumeDestroy(v)

SpecTargets == Init /\ [][TargetsNext]_vars

(* ------------- network allocator: the fixed ip lease cycle ------------- *)
IpResult(result, ips, address) ==
    [result |-> result, fixed_ips |-> ips, address |-> address]

\* what allocate may hand out: bound to no instance and not leased
AvailableIps(ips) ==
    {a \in FixedAddrs : ips[a].instance = NoInstance /\ ~ips[a].leased}

allocate_fixed_ip(ips, instance_id, project) ==
    IF AvailableIps(ips) = {} THEN IpResult("NoMoreAddresses", ips, NoAddress)
    ELSE LET a == CHOOSE n \in AvailableIps(ips) :
                      \A m \in AvailableIps(ips) : n <= m IN
         IpResult("ok",
                  [ips EXCEPT ![a] = [instance |-> instance_id,
                                      project |-> project,
                                      allocated |-> TRUE, leased |-> FALSE]],
                  a)

\* the DHCP server reports the lease of an address
lease_fixed_ip(ips, address) ==
    IF ips[address].instance = NoInstance THEN IpResult("Error", ips, address)
    ELSE IpResult("ok", [ips EXCEPT ![address].leased = TRUE], address)

\* deallocate that frees the address whether it is leased or not
deallocate_fixed_ip_at_once(ips, address) ==
    IpResult("ok", [ips EXCEPT ![address] = FreeIp], address)

\* allocated becomes false; a leased address stays bound until its release
deallocate_fixed_ip(ips, address) ==
    IF ips[address].leased
    THEN IpResult("ok", [ips EXCEPT ![address].allocated = FALSE], address)
    ELSE IpResult("ok", [ips EXCEPT ![address] = FreeIp], address)

\* the DHCP server reports the release of an address
release_fixed_ip(ips, address) ==
    IF ips[address].instance = NoInstance THEN IpResult("Error", ips, address)
    ELSE IF ips[address].allocated
    THEN IpResult("ok", [ips EXCEPT ![address].leased = FALSE], address)
    ELSE IpResult("ok", [ips EXCEPT ![address] = FreeIp], address)

\* the grace timer: the deallocated addresses whose timer has run out are
\* freed without their release
lease_reaper(ips, expired) ==
    IpResult("ok",
             [a \in FixedAddrs |->
                IF a \in expired /\ ips[a].instance # NoInstance
                       /\ ~ips[a].allocated
                THEN FreeIp ELSE ips[a]],
             NoAddress)

IpStep(op, r, branch) ==
    /\ fixed_ips' = r.fixed_ips
    /\ last' = Outcome(op, r.result, branch, r.address)
    /\ UNCHANGED <<cloudVars, authVars, signVars, zoneVars, apiVars,
                   iscsi_targets, host_volumes>>

AllocateFixedIp(instance_id, project) ==
    \E r \in {allocate_fixed_ip(fixed_ips, instance_id, project)} :
        IpStep("allocate_fixed_ip", r, "")

LeaseFixedIp(address) ==
    \E r \in {lease_fixed_ip(fixed_ips, address)} :
        IpStep("lease_fixed_ip", r, "")

DeallocateFixedIp(address) ==
    \E r \in {deallocate_fixed_ip(fixed_ips, address)} :
        IpStep("deallocate_fixed_ip", r,
               IF fixed_ips[address].leased THEN "leased" ELSE "")

ReleaseFixedIp(address) ==
    \E r \in {release_fixed_ip(fixed_ips, address)} :
        IpStep("release_fixed_ip", r,
               IF fixed_ips[address].allocated THEN "allocated" ELSE "")

LeaseReaper(expired) ==
    \E r \in {lease_reaper(fixed_ips, expired)} :
        IpStep("lease_reaper", r,
               IF r.fixed_ips # fixed_ips THEN "freed" ELSE "")

\* the allocator's calls and the DHCP events, in any order
LeaseNext ==
    \/ \E i \in InstIds, p \in Projects : AllocateFixedIp(i, p)
    \/ \E a \in FixedAddrs : LeaseFixedIp(a)
    \/ \E a \in FixedAddrs : DeallocateFixedIp(a)
    \/ \E a \in FixedAddrs : ReleaseFixedIp(a)
    \/ \E expired \in SUBSET FixedAddrs : LeaseReaper(expired)

SpecLease == Init /\ [][LeaseNext]_vars

(* ------------------------------- claims ------------------------------- *)
\* The handlers are the operators the actions apply, so a claim about what a
\* call does is stated over the handler's result r in every reachable state
\* (r ranges over a one-element set, which evaluates the handler once).
CastsFor(em, i) == {k \in 1..Len(em) : em[k].instance_id = i}

Occurrences(ids, i) == Cardinality({k \in 1..Len(ids) : ids[k] = i})

HasCast(em, i) == \E k \in 1..Len(em) : em[k].instance_id = i

\* C1: attach_volume on a volume whose status is not available fails with
\* ApiError, leaves every volume unchanged and emits no cast.
C1_AttachOnlyWhenAvailable ==
    \A ctx \in Contexts, v \in VolIds, i \in InstIds, d \in Devices :
        \A r \in {attach_volume(volumes, instances, ctx, v, i, d)} :
        (VolumeFound(volumes, ctx, v) /\ volumes[v].status # "available")
        => (/\ r.result = "ApiError"
            /\ r.volumes = volumes
            /\ r.emitted = <<>>)

\* C2: no two distinct volumes hold the same device of the same instance,
\* and attach_volume fails with ApiError, changing nothing, when another
\* volume already uses the requested device on the requested instance.
C2_NoSharedDevice ==
    /\ \A v, w \in DOMAIN volumes :
          (v # w /\ volumes[v].instance_id # NoInstance
                 /\ volumes[v].instance_id = volumes[w].instance_id)
          => volumes[v].mountpoint # volumes[w].mountpoint
    /\ \A ctx \in Contexts, v \in VolIds, i \in InstIds, d \in Devices :
          \A r \in {attach_volume(volumes, instances, ctx, v, i, d)} :
          (/\ VolumeFound(volumes, ctx, v)
           /\ \E w \in DOMAIN volumes \ {v} :
                 volumes[w].instance_id = i /\ volumes[w].mountpoint = d)
          => (/\ r.result = "ApiError"
              /\ r.volumes = volumes
              /\ r.emitted = <<>>)

\* C2 witness: an attach of a free volume was refused because another
\* volume holds the device on that instance.
C2_Witness ==
    /\ last.op = "attach_volume" /\ last.result = "ApiError"
    /\ last.branch = "device in use"
    /\ volumes[last.arg].instance_id = NoInstance
    /\ \E w \in DOMAIN volumes \ {last.arg} :
          volumes[w].instance_id # NoInstance

LegalTuple(vol) ==
    \/ /\ vol.status = "available" /\ vol.attach_status = "detached"
       /\ vol.instance_id = NoInstance /\ vol.mountpoint = NoMountpoint
    \/ /\ vol.status = "attaching" /\ vol.attach_status = "detached"
       /\ vol.instance_id # NoInstance /\ vol.mountpoint # NoMountpoint
    \/ /\ vol.status \in {"in-use", "detaching"}
       /\ vol.attach_status = "attached"
       /\ vol.instance_id # NoInstance /\ vol.mountpoint # NoMountpoint

\* C3: every volume's (status, attach_status, instance id, mountpoint) is one
\* of (available, detached, none, none), (attaching, detached, I, M),
\* (in-use, attached, I, M), (detaching, attached, I, M).
C3_LegalVolumeTuples == \A v \in DOMAIN volumes : LegalTuple(volumes[v])

\* C4: detach_volume of an attached volume whose owning instance does not
\* resolve any more returns normally, leaves the volume available and
\* detached with no instance and no mountpoint, and emits no cast.
C4_BlindDetach ==
    \A ctx \in Contexts, v \in VolIds :
        \A r \in {detach_volume(volumes, instances, ctx, v)} :
        (/\ VolumeFound(volumes, ctx, v)
         /\ volumes[v].attach_status = "attached"
         /\ volumes[v].instance_id # NoInstance
         /\ ~InstanceFound(instances, ctx, volumes[v].instance_id))
        => (/\ r.result = "ok"
            /\ r.volumes[v] = NewVolume(volumes[v].project_id)
            /\ r.emitted = <<>>)

\* C4 witness: an in-use volume was detached blind after its instance had
\* been launched and destroyed.
C4_Witness ==
    /\ last.op = "detach_volume" /\ last.branch = "blind"
    /\ last.pre = "in-use" /\ last.result = "ok"
    /\ volumes[last.arg].status = "available"
    /\ nextInst > 0 /\ DOMAIN instances = {}

\* C5: a successful run_instances with max_count = N persists exactly N new
\* records sharing one reservation id no earlier record carries, with launch
\* indexes 0..N-1, and emits exactly N run_instance casts to the compute
\* topic, one per new instance id.
C5_RunInstancesReservation ==
    \A ctx \in Contexts, im \in Images, kn \in KeyNames, n \in 0..MaxCount :
        \A r \in {run_instances(instances, fixed, nextInst, nextRes, ctx,
                                 im, kn, n)} :
        LET new == DOMAIN r.instances \ DOMAIN instances IN
        r.result = "ok"
        => /\ Cardinality(new) = n
           /\ \A i \in DOMAIN instances :
                 i \in DOMAIN r.instances /\ r.instances[i] = instances[i]
           /\ \A i, j \in new :
                 r.instances[i].reservation_id = r.instances[j].reservation_id
           /\ \A i \in new :
                 /\ r.instances[i].reservation_id > nextRes
                 /\ \A j \in DOMAIN instances :
                       instances[j].reservation_id
                           # r.instances[i].reservation_id
           /\ {r.instances[i].ami_launch_index : i \in new} = 0..(n - 1)
           /\ Len(r.emitted) = n
           /\ \A k \in 1..n :
                 /\ r.emitted[k].dest = compute_topic
                 /\ r.emitted[k].method = "run_instance"
           /\ \A i \in new : Cardinality(CastsFor(r.emitted, i)) = 1

\* C5 witness: a run of two instances has succeeded and its two casts are
\* in flight.
C5_Witness ==
    /\ last.op = "run_instances" /\ last.result = "ok" /\ last.arg = 2
    /\ Len(casts) = 2
    /\ casts[1].method = "run_instance" /\ casts[2].method = "run_instance"
    /\ casts[1].instance_id # casts[2].instance_id
    /\ {casts[1].instance_id, casts[2].instance_id} \subseteq DOMAIN instances

\* C6: for each found instance terminate_instances emits one
\* terminate_instance cast to compute.<host> per listing and keeps the
\* record when a host is assigned; with no host it deletes the record and
\* emits no cast.
C6_TerminateCastOrDestroy ==
    \A ctx \in Contexts, ids \in IdLists :
        \A r \in {terminate_instances(instances, fixed, ctx, ids)} :
        \A n \in 1..Len(ids) :
            LET i == ids[n] IN
            InstanceFound(instances, ctx, i)
            => IF instances[i].node_name # Unassigned
               THEN /\ i \in DOMAIN r.instances
                    /\ Cardinality(CastsFor(r.emitted, i))
                          = Occurrences(ids, i)
                    /\ \A k \in CastsFor(r.emitted, i) :
                          /\ r.emitted[k].method = "terminate_instance"
                          /\ r.emitted[k].dest
                                = HostTopic(instances[i].node_name)
               ELSE /\ i \notin DOMAIN r.instances
                    /\ ~HasCast(r.emitted, i)

\* C6 witness: one call terminated an instance with a host, whose cast is
\* in flight and whose record is kept, and an instance without a host,
\* whose record is gone.
C6_Witness ==
    /\ last.op = "terminate_instances" /\ last.branch = "cd"
    /\ Len(casts) > 0
    /\ casts[Len(casts)].method = "terminate_instance"
    /\ casts[Len(casts)].instance_id \in DOMAIN instances
    /\ Cardinality(DOMAIN instances) < nextInst

C10_RebootOnlyRunning ==
    \A ctx \in Contexts, ids \in IdLists :
        \A r \in {reboot_instances(instances, ctx, ids)} :
        \A i \in InstIds :
            HasCast(r.emitted, i)
            <=> (/\ \E n \in 1..Len(ids) : ids[n] = i
                 /\ InstanceFound(instances, ctx, i)
                 /\ instances[i].state = "running")

\* C11: a floating address is held by at most one allocation at a time:
\* allocate_address hands out only an address that no project holds and
\* fails with NoMoreFloatingIps, changing nothing, when all k addresses of
\* the pool are held; release_address of a held address frees it, and with
\* the rest of the pool held the next allocate_address returns it again.
C11_FloatingAllocation ==
    /\ \A ctx \in Contexts :
          \A r \in {allocate_address(floating, ctx)} :
          IF FreeFloating(floating) = {}
          THEN r.result = "NoMoreFloatingIps" /\ r.floating = floating
          ELSE /\ r.result = "ok"
               /\ r.address \in FreeFloating(floating)
               /\ r.floating[r.address].project_id = ctx.project
               /\ \A b \in FloatingAddrs \ {r.address} :
                     r.floating[b] = floating[b]
    /\ \A ctx \in Contexts, a \in FloatingAddrs :
          floating[a].project_id # NoProject
          => \A rel \in {release_address(floating, ctx, a)} :
             /\ rel.result = "ok"
             /\ FreeFloating(rel.floating) = FreeFloating(floating) \cup {a}
             /\ FreeFloating(floating) = {}
                   => \A again \in {allocate_address(rel.floating, ctx)} :
                         again.result = "ok" /\ again.address = a

\* C11 witness: with every address of the pool held, one more
\* allocate_address has failed with NoMoreFloatingIps.
C11_Witness ==
    /\ last.op = "allocate_address" /\ last.result = "NoMoreFloatingIps"
    /\ FreeFloating(floating) = {}

\* C12: associate_address by a caller who is not an administrator fails,
\* and changes no association, when the public address is not allocated to
\* the caller's project.
C12_AssociateChecksOwnership ==
    \A ctx \in Contexts, i \in InstIds, a \in FloatingAddrs :
        \A r \in {associate_address(floating, instances, ctx, i, a)} :
        (~ctx.admin /\ floating[a].project_id # ctx.project)
        => (r.result # "ok" /\ r.floating = floating)
\* C13: in every state reached through create_project, modify_project,
\* add_to_project, remove_from_project and delete_user, the manager of every
\* existing project is one of the project's members
C13_ManagerIsMember ==
    \A d \in GroupDNs :
        groups[d].exists /\ groups[d].owner # NoUser
            => groups[d].owner \in groups[d].member

\* the groups nested below project p that have u as a member
RoleGroupsOf(gs, u, p) ==
    {d \in AllGroups(gs) : Len(d) = 2 /\ d[2] = p /\ u \in gs[d].member}

\* after a successful remove_from_project(u, p): u is in no role group
\* below p and has_role(u, r, p) is false for every role r
NoRoleLeft(r, u, p) ==
    /\ RoleGroupsOf(r.groups, u, p) = {}
    /\ \A role \in Roles :
           has_role(r.users, r.groups, u, role, p)
               = [result |-> "ok", value |-> FALSE]

\* u can be added to p again and then removed again without error
AddRemoveAgain(r, u, p) ==
    \A a \in {add_to_project(r.users, r.groups, u, p)} :
        /\ a.result = "ok"
        /\ \A b \in remove_from_project(a.users, a.groups, u, p) :
               b.result = "ok"

\* C14 as stated: after remove_from_project(u, p) succeeds, u is a member of
\* no role group nested under p, has_role(u, r, p) is false for every role r,
\* and u can be added to p again and removed again without error
C14_RemoveFromProject ==
    \A u \in Users, p \in ProjectIds :
        \A r \in remove_from_project(users, groups, u, p) :
            r.result = "ok" => NoRoleLeft(r, u, p) /\ AddRemoveAgain(r, u, p)

\* C14 amended: after remove_from_project(u, p) succeeds, u is a member of
\* no role group nested under p and has_role(u, r, p) is false for every
\* role r; when u was not the last member of p, so that p still exists, u
\* can be added to p again and removed again without error, and when u was
\* the last member p is gone and add_to_project(u, p) raises NotFound
C14_RemoveFromProjectKept ==
    \A u \in Users, p \in ProjectIds :
        \A r \in remove_from_project(users, groups, u, p) :
            r.result = "ok" =>
                /\ NoRoleLeft(r, u, p)
                /\ IF groups[project_to_dn(groups, p)].member # {u}
                   THEN AddRemoveAgain(r, u, p)
                   ELSE /\ ~r.groups[project_to_dn(groups, p)].exists
                        /\ add_to_project(r.users, r.groups, u, p).result
                               = "NotFound"

\* C14 witness: a user who held a role below the project has been removed
\* from the project, which still exists, and holds no role below it
C14_Witness ==
    /\ last.op = "remove_from_project"
    /\ last.result = "ok"
    /\ last.branch = "nested"
    /\ \E u \in Users, p \in ProjectIds :
           /\ user_exists(users, u)
           /\ groups[<<p>>].exists
           /\ u \notin groups[<<p>>].member
           /\ RoleGroupsOf(groups, u, p) = {}

\* C15: when the only member of a role group is removed from it by
\* remove_role, the group entry is deleted (the removal succeeds whenever no
\* entry is nested below the group), and has_role for that role then answers
\* false, without an error, for every existing user
C15_LastMemberDeletesGroup ==
    \A u \in Users, role \in Roles, p \in Scopes :
        \A dn \in {role_to_dn(groups, role, p)} :
            groups[dn].exists /\ groups[dn].member = {u} =>
                \A r \in remove_role(users, groups, u, role, p) :
                    /\ user_exists(users, u) /\ Subtree(groups, dn) = {dn}
                           => r.result = "ok"
                    /\ r.result = "ok" =>
                           /\ ~r.groups[dn].exists
                           /\ \A v \in Users :
                                  user_exists(r.users, v) =>
                                      has_role(r.users, r.groups, v, role, p)
                                          = [result |-> "ok", value |-> FALSE]

\* C15 witness: remove_role has removed the last member of a role group and
\* the group is gone
C15_Witness ==
    /\ last.op = "remove_role"
    /\ last.result = "ok"
    /\ last.branch = "last"
    /\ \E role \in Roles, p \in Scopes :
           ~groups[role_to_dn(groups, role, p)].exists
    /\ \E v \in Users : user_exists(users, v)

C17_DeleteUserLeavesNothing ==
    \A u \in Users :
        \A r \in delete_user(users, groups, modify_only, u) :
            r.result = "ok" =>
                /\ \A d \in AllGroups(r.groups) : u \notin r.groups[d].member
                /\ get_user(r.users, u) = NoUser

\* C17 witness: a user who was a member of some group has been deleted and
\* is in no group
C17_Witness ==
    /\ last.op = "delete_user"
    /\ last.result = "ok"
    /\ last.branch = "member"
    /\ \E u \in Users :
           /\ get_user(users, u) = NoUser
           /\ \A d \in AllGroups(groups) : u \notin groups[d].member
    /\ AllGroups(groups) # {}

\* has_role(u, role, p) answers the same in both directories
SameRole(us1, gs1, us2, gs2, u, role, p) ==
    has_role(us1, gs1, u, role, p) = has_role(us2, gs2, u, role, p)

\* C18: add_role and remove_role for (u, r) without a project never change
\* has_role(u, r, p) for an existing project p, and add_role and remove_role
\* for (u, r, p) never change the global has_role(u, r)
C18_ScopesIndependent ==
    \A u \in Users, role \in Roles, p \in ProjectIds :
        project_exists(groups, p) =>
            /\ \A a \in {add_role(users, groups, u, role, GlobalScope)} :
                   SameRole(users, groups, a.users, a.groups, u, role, p)
            /\ \A b \in remove_role(users, groups, u, role, GlobalScope) :
                   SameRole(users, groups, b.users, b.groups, u, role, p)
            /\ \A a \in {add_role(users, groups, u, role, p)} :
                   SameRole(users, groups, a.users, a.groups, u, role,
                            GlobalScope)
            /\ \A b \in remove_role(users, groups, u, role, p) :
                   SameRole(users, groups, b.users, b.groups, u, role,
                            GlobalScope)

\* the same user entries exist in both directories
SameEntries(us1, us2) ==
    \A v \in Users : ldap_user_exists(us1, v) <=> ldap_user_exists(us2, v)

\* C19: with ldap_user_modify_only set, create_user and delete_user neither
\* add nor delete a user entry: create_user sets the three keys on an entry
\* that exists and raises NotFound, changing nothing, when there is none;
\* delete_user only removes the keys, and the user can then be created again
C19_ModifyOnly ==
    modify_only =>
        \A u \in Users :
            /\ \A c \in {create_user(users, groups, modify_only, u)} :
                   /\ SameEntries(users, c.users)
                   /\ c.groups = groups
                   /\ users[u] = "absent" =>
                          c.result = "NotFound" /\ c.users = users
                   /\ users[u] = "bare" =>
                          /\ c.result = "ok"
                          /\ c.users = [users EXCEPT ![u] = "nova"]
                   /\ c.result = "ok" => users[u] = "bare"
            /\ \A d \in delete_user(users, groups, modify_only, u) :
                   /\ SameEntries(users, d.users)
                   /\ d.result = "ok" =>
                          /\ d.users = [users EXCEPT ![u] = "bare"]
                          /\ \A c \in {create_user(d.users, d.groups,
                                                  modify_only, u)} :
                                 /\ c.result = "ok"
                                 /\ get_user(c.users, u) = u

\* C19 witness: with the flag set, a user created on a provisioned entry has
\* been deleted and the entry is still there, without the keys
C19_Witness ==
    /\ modify_only
    /\ last.op = "delete_user"
    /\ last.result = "ok"
    /\ \E u \in Users : users[u] = "bare"

Tampered(params) ==
    {p \in AllParams :
        \E k \in ParamKeys :
            /\ \A j \in ParamKeys \ {k} :
                   /\ j \in DOMAIN p <=> j \in DOMAIN params
                   /\ j \in DOMAIN p => p[j] = params[j]
            /\ \/ k \in DOMAIN p /\ k \notin DOMAIN params
               \/ k \notin DOMAIN p /\ k \in DOMAIN params
               \/ k \in DOMAIN p /\ k \in DOMAIN params /\ p[k] # params[k]}

\* C21: for each signature version 0, 1 and 2, the signature a new
\* Signer(secret) generates for a params dict is not accepted for a dict in
\* which one value was changed or one parameter added or removed, nor under
\* another secret
C21_TamperDetected ==
    \A s \in Secrets :
        \A g \in {generate(NewSignerObject(s), request, Verb, ServerString,
                            Path)} :
            g.result = "ok" =>
                /\ \A p \in Tampered(request) :
                       verify(s, p, Verb, ServerString, Path, g.signature)
                           # "accepted"
                /\ \A s2 \in Secrets \ {s} :
                       verify(s2, request, Verb, ServerString, Path,
                              g.signature) # "accepted"

\* C22: for a request whose SignatureVersion is none of 0, 1 and 2, generate
\* fails with the unknown-signature-version Error and with no other failure,
\* and returns no signature
C22_UnknownVersionError ==
    "SignatureVersion" \in DOMAIN request
        /\ request["SignatureVersion"] \notin {"0", "1", "2"} =>
        \A s \in Secrets :
            \A g \in {generate(NewSignerObject(s), request, Verb, ServerString,
                                Path)} :
                /\ g.result = "Error"
                /\ g.signature = NoSignature

\* the algorithm of the MAC inside a signature
AlgorithmOf(signature) == signature[2]

\* C23: for a version 2 request that carries SignatureMethod, generate signs
\* with the algorithm the parameter names, HMAC-SHA1 for HmacSHA1 and
\* HMAC-SHA256 for HmacSHA256, and the SignatureMethod that is signed is the
\* value the caller supplied
C23_SignatureMethodSelects ==
    VersionOf(request) = "2" /\ "SignatureMethod" \in DOMAIN request =>
        \A s \in Secrets :
            \A g \in {generate(NewSignerObject(s), request, Verb, ServerString,
                                Path)} :
                /\ g.result = "ok"
                /\ AlgorithmOf(g.signature)
                       = IF request["SignatureMethod"] = "HmacSHA1"
                         THEN "sha1" ELSE "sha256"
                /\ g.params["SignatureMethod"] = request["SignatureMethod"]

C25_SuccessReactivates ==
    /\ \A z \in DOMAIN zone_states, md \in ZoneMetadata :
           \A state \in {zone_states[z]} :
               \A after \in {update_metadata(state, md)} :
                   /\ after.attempt = 0
                   /\ after.is_active
                   /\ after.name = md.name
                   /\ after.capabilities = md.capabilities
                   /\ after.api_url = state.api_url
                   /\ after.username = state.username
                   /\ after.password = state.password
    /\ \A diff \in Elapsed :
           \A states \in {ping(zone_states, zone_db, diff)} :
               poll_zones(states) = DOMAIN states
    /\ last.op \in {"ping", "refresh"} =>
           {p[1] : p \in {q \in pending : q[2] = "latest"}}
               = DOMAIN zone_states
    /\ last.op = "poll_ok" =>
           /\ zone_states[last.arg].is_active
           /\ zone_states[last.arg].attempt = 0
           /\ failed[last.arg] = 0

\* C25 witness: the successful poll of a zone that was inactive has made
\* it active again
C25_Witness ==
    /\ last.op = "poll_ok"
    /\ last.branch = "inactive"
    /\ zone_states[last.arg].is_active
    /\ zone_states[last.arg].attempt = 0
    /\ zone_states[last.arg].last_exception # NoException

\* C26: what _refresh_from_db returns holds exactly the zone ids of the zone
\* table, each with the table's api_url, username and password; a zone that
\* was in the map keeps the rest of its state and a new one starts as a new
\* ZoneState; right after a reconcile the map and the table agree
C26_RefreshMatchesDb ==
    /\ \A states \in {refresh_from_db(zone_states, zone_db)} :
           /\ DOMAIN states = DOMAIN zone_db
           /\ \A z \in DOMAIN states :
                  states[z] = update_credentials(
                                  IF z \in DOMAIN zone_states
                                  THEN zone_states[z] ELSE NewZoneState,
                                  z, zone_db[z])
           /\ \A z \in DOMAIN states :
                  /\ states[z].zone_id = z
                  /\ states[z].api_url = zone_db[z].api_url
                  /\ states[z].username = zone_db[z].username
                  /\ states[z].password = zone_db[z].password
    /\ last.op = "refresh" =>
           /\ DOMAIN zone_states = DOMAIN zone_db
           /\ \A z \in DOMAIN zone_states :
                  /\ zone_states[z].api_url = zone_db[z].api_url
                  /\ zone_states[z].username = zone_db[z].username
                  /\ zone_states[z].password = zone_db[z].password

\* C26 witness: a reconcile has removed a zone that the table no longer
\* has and kept another
C26_Witness ==
    /\ last.op = "refresh"
    /\ last.branch = "removed"
    /\ zone_states # <<>>
    /\ DOMAIN zone_states = DOMAIN zone_db

\* what the hosts of a service have reported last, per capability
ReportedBy(service, cap) ==
    IF service \in DOMAIN service_states
    THEN {service_states[service][h][cap] :
             h \in {x \in DOMAIN service_states[service] :
                       cap \in DOMAIN service_states[service][x]}}
    ELSE {}

\* C27: get_zone_capabilities with a service name does not fail and returns
\* exactly one key <service>_<cap> for every capability that a host of the
\* service reported, with the minimum and the maximum of the hosts' latest
\* values, and no key of another service
C27_ServiceCapabilities ==
    \A service \in Services :
        \A r \in {get_zone_capabilities(service_states, service)} :
            /\ r.result = "ok"
            /\ DOMAIN r.combined =
                   {CapKey(service, cap) :
                       cap \in {c \in Caps : ReportedBy(service, c) # {}}}
            /\ \A cap \in Caps :
                   ReportedBy(service, cap) # {} =>
                       r.combined[CapKey(service, cap)] =
                           <<MinOf(ReportedBy(service, cap)),
                             MaxOf(ReportedBy(service, cap))>>

\* without a service name the roll-up of every service is returned
AllServicesRollUp ==
    \A r \in {get_zone_capabilities(service_states, NoService)} :
        /\ r.result = "ok"
        /\ DOMAIN r.combined =
               {CapKey(service, cap) : <<service, cap>> \in
                   {x \in Services \X Caps : ReportedBy(x[1], x[2]) # {}}}
        /\ \A service \in Services, cap \in Caps :
               ReportedBy(service, cap) # {} =>
                   r.combined[CapKey(service, cap)] =
                       <<MinOf(ReportedBy(service, cap)),
                         MaxOf(ReportedBy(service, cap))>>

\* C30: run_instances for the VPN image, outside simple network mode and
\* with addresses left, succeeds: every instance asked for is persisted with
\* a private address that is then allocated, and one run_instance cast is
\* emitted for each
C30_VpnImageRuns ==
    \A ctx \in Contexts, n \in 1..MaxCount :
        \A r \in {run_instances(instances, fixed, nextInst, nextRes, ctx,
                                 vpn_image_id, "", n)} :
        LET new == DOMAIN r.instances \ DOMAIN instances IN
        (~simple_network /\ Cardinality(FreeAddrs(fixed)) >= n)
        => /\ r.result = "ok"
           /\ Cardinality(new) = n
           /\ \A i \in new :
                 /\ r.instances[i].private_dns_name \in FixedAddrs
                 /\ r.fixed[r.instances[i].private_dns_name] = "allocated"
                 /\ Cardinality(CastsFor(r.emitted, i)) = 1
           /\ Len(r.emitted) = n

\* the names of the groups that describe_security_groups lists
Listed(ctx) ==
    LET set == describe_security_groups(ctx, <<>>).securityGroupSet
    IN  {set[k].name : k \in 1..Len(set)}

\* C28: after create_security_group(name) has succeeded,
\* describe_security_groups lists the group and the project's default group;
\* after delete_security_group(name) only default is listed
C28_SecurityGroupRoundTrip ==
    \A ctx \in Contexts :
        /\ (last.op = "create_security_group" /\ last.result = "ok")
               => Listed(ctx) = {"default", last.arg}
        /\ (last.op = "delete_security_group" /\ last.result = "ok"
                /\ last.arg # "default")
               => Listed(ctx) = {"default"}

\* C29: modify_image_attribute is rejected with ApiError, and the image
\* service is not called, for every attribute other than launchPermission
\* and every user_group list other than ['all']
C29_OnlyLaunchPermissionAll ==
    \A ctx \in Contexts, im \in Images, at \in Attributes,
       op \in OperationTypes, ug \in UserGroupLists :
        \A r \in {modify_image_attribute(image_calls, ctx, im, at, op, ug)} :
            (at # "launchPermission" \/ ug # <<"all">>)
            => /\ r.result = "ApiError"
               /\ r.image_calls = image_calls

\* a request for another attribute never reaches the image service, and
\* launchPermission for ['all'] with add or remove does
AttributeGuard ==
    \A ctx \in Contexts, im \in Images, at \in Attributes,
       op \in OperationTypes, ug \in UserGroupLists :
        \A r \in {modify_image_attribute(image_calls, ctx, im, at, op, ug)} :
            /\ at # "launchPermission"
                  => r.result = "ApiError" /\ r.image_calls = image_calls
            /\ (at = "launchPermission" /\ ug = <<"all">>
                   /\ op \in {"add", "remove"})
                  => r.result = "ok" /\ <<im, op>> \in r.image_calls

\* C33: attach_volume that names an instance the caller cannot see, or one
\* that does not exist, fails and leaves the volume as it was (status,
\* attach status, instance id and mountpoint) and emits no cast
C33_AttachMissingInstance ==
    \A ctx \in Contexts, v \in VolIds, i \in InstIds, d \in Devices :
        \A r \in {attach_volume(volumes, instances, ctx, v, i, d)} :
        (VolumeFound(volumes, ctx, v) /\ ~InstanceFound(instances, ctx, i))
        => (/\ r.result # "ok"
            /\ r.volumes = volumes
            /\ r.emitted = <<>>)

\* C35: when the latest issued poll of a zone has completed successfully,
\* the zone is active with attempt 0, whatever polls issued earlier complete
\* afterwards: a late failure of an earlier poll neither raises attempt nor
\* marks the zone inactive
C35_LatestPollWins ==
    \A z \in DOMAIN zone_states :
        latest_ok[z] => /\ zone_states[z].attempt = 0
                        /\ zone_states[z].is_active

C34_PingReconcilesWhenDue ==
    \A diff \in Elapsed :
        total_seconds(diff) >= zone_db_check_interval
        => ping(zone_states, zone_db, diff)
               = refresh_from_db(zone_states, zone_db)

\* a ping made less than a day after the last reconcile reconciles exactly
\* when zone_db_check_interval seconds have passed
PingWithinADay ==
    \A diff \in {d \in Elapsed : d.days = 0} :
        ping(zone_states, zone_db, diff)
            = IF total_seconds(diff) >= zone_db_check_interval
              THEN refresh_from_db(zone_states, zone_db) ELSE zone_states

\* C37: on one Signer object, generate for the same params, verb, host and
\* path returns the same signature on every call, whatever generate calls
\* the object has served before: the second of two calls in a row returns
\* what the first returned
C37_GenerateDeterministic ==
    signer.made =>
        \A first \in {generate(signer, request, Verb, ServerString, Path)} :
            \A second \in {generate(first.signer, request, Verb,
                                     ServerString, Path)} :
                first.result = "ok"
                => second.result = "ok" /\ second.signature = first.signature

\* what a project owns of each store
OwnInstances(insts, project_id) ==
    [i \in {j \in DOMAIN insts : insts[j].project_id = project_id} |->
        insts[i]]

OwnVolumes(vols, project_id) ==
    [v \in {w \in DOMAIN vols : vols[w].project_id = project_id} |-> vols[v]]

OwnAddresses(fl, project_id) ==
    [a \in FloatingAddrs |->
        IF fl[a].project_id = project_id THEN fl[a]
        ELSE [project_id |-> NoProject, instance_id |-> NoInstance]]

\* C38: what describe_instances, describe_volumes and describe_addresses
\* return to a caller who is not an administrator is what they return in the
\* state that holds the resources of the caller's project alone
C38_ProjectIsolation ==
    \A ctx \in {c \in Contexts : ~c.admin} :
        /\ describe_volumes(volumes, ctx)
               = describe_volumes(OwnVolumes(volumes, ctx.project), ctx)
        /\ describe_instances(instances, floating, ctx)
               = describe_instances(OwnInstances(instances, ctx.project),
                                    OwnAddresses(floating, ctx.project), ctx)
        /\ describe_addresses(floating, ctx)
               = describe_addresses(OwnAddresses(floating, ctx.project), ctx)

\* describe_volumes and the instances of describe_instances show a caller
\* who is not an administrator the resources of the caller's project alone
VolumesAndInstancesIsolated ==
    \A ctx \in {c \in Contexts : ~c.admin} :
        /\ describe_volumes(volumes, ctx)
               = describe_volumes(OwnVolumes(volumes, ctx.project), ctx)
        /\ describe_instances(instances, floating, ctx)
               = describe_instances(OwnInstances(instances, ctx.project),
                                    floating, ctx)

\* the global role is not granted by going from one directory to the other
NotGranted(us1, gs1, us2, gs2, u, role) ==
    has_role(us2, gs2, u, role, GlobalScope).value
        => has_role(us1, gs1, u, role, GlobalScope).value

\* C39: no project operation makes the global has_role(u, r) true for a user
\* who did not hold the role: create_project, add_to_project,
\* remove_from_project and delete_project leave it false, for every project
\* name, the cn of a global role group included
C39_ProjectOpsKeepGlobalRoles ==
    \A u \in Users, role \in Roles, p \in ProjectIds, w \in Users :
        /\ \A ms \in SUBSET Users :
               \A c \in {create_project(users, groups, p, w, ms)} :
                   NotGranted(users, groups, c.users, c.groups, u, role)
        /\ \A a \in {add_to_project(users, groups, w, p)} :
               NotGranted(users, groups, a.users, a.groups, u, role)
        /\ \A b \in remove_from_project(users, groups, w, p) :
               NotGranted(users, groups, b.users, b.groups, u, role)
        /\ \A d \in delete_project(users, groups, p) :
               NotGranted(users, groups, d.users, d.groups, u, role)

\* project operations on a project whose name is no cn of a global role
\* group never grant a global role
OtherNamesKeepGlobalRoles ==
    \A u \in Users, role \in Roles, w \in Users :
        \A p \in {q \in ProjectIds : <<q>> # ldap_role_flag(role)} :
        /\ \A ms \in SUBSET Users :
               \A c \in {create_project(users, groups, p, w, ms)} :
                   NotGranted(users, groups, c.users, c.groups, u, role)
        /\ \A a \in {add_to_project(users, groups, w, p)} :
               NotGranted(users, groups, a.users, a.groups, u, role)
        /\ \A b \in remove_from_project(users, groups, w, p) :
               NotGranted(users, groups, b.users, b.groups, u, role)
        /\ \A d \in delete_project(users, groups, p) :
               NotGranted(users, groups, d.users, d.groups, u, role)


\* every member of every group entry is a user get_user returns
MembersExist(us, gs) ==
    \A d \in AllGroups(gs) : \A m \in gs[d].member : get_user(us, m) # NoUser

\* C40: every member of every project group and of every role group is an
\* existing user, one get_user returns, after any sequence of operations,
\* add_role on a role group that does not exist yet included
C40_MembersExist == MembersExist(users, groups)

\* from a directory whose members all exist, the operations keep it so as
\* long as add_role is called for a user that exists: add_to_project,
\* create_project and add_role on an existing group look the user up, and
\* delete_user removes the user from every group before the entry
ExistingUsersKeepMembers ==
    MembersExist(users, groups) =>
        /\ \A u \in Users, role \in Roles, p \in ProjectIds \cup {GlobalScope} :
               user_exists(users, u) =>
                   \A r \in {add_role(users, groups, u, role, p)} :
                       MembersExist(r.users, r.groups)
        /\ \A u \in Users, p \in ProjectIds :
               /\ \A r \in {add_to_project(users, groups, u, p)} :
                      MembersExist(r.users, r.groups)
               /\ \A ms \in SUBSET Users :
                      \A r \in {create_project(users, groups, p, u, ms)} :
                          MembersExist(r.users, r.groups)
        /\ \A u \in Users :
               \A r \in delete_user(users, groups, modify_only, u) :
                   r.result = "ok" => MembersExist(r.users, r.groups)

\* C31: no two existing volumes on the same volume host hold the same iSCSI
\* target number, in every interleaving of the halves of concurrent
\* create_volume and delete_volume requests
C31_DistinctTargets ==
    \A v, w \in DOMAIN host_volumes :
        (/\ v # w
         /\ host_volumes[v].host = host_volumes[w].host
         /\ host_volumes[v].iscsi_target_num # NoTarget)
            => host_volumes[v].iscsi_target_num # host_volumes[w].iscsi_target_num

\* two creates in flight on one host, both past their slot assignment
C31_Witness ==
    /\ last.op = "create_volume"
    /\ last.result = "ok"
    /\ \E v, w \in DOMAIN host_volumes :
          /\ v # w
          /\ host_volumes[v].host = host_volumes[w].host
          /\ host_volumes[v].status = "creating"
          /\ host_volumes[w].status = "creating"
          /\ host_volumes[v].iscsi_target_num # NoTarget
          /\ host_volumes[w].iscsi_target_num # NoTarget

\* the number a volume holds is the slot the table gives to that volume, and
\* a slot in use belongs to an existing volume of that host
SlotTableMatches ==
    /\ \A v \in DOMAIN host_volumes :
          host_volumes[v].iscsi_target_num # NoTarget =>
              iscsi_targets[host_volumes[v].host][host_volumes[v].iscsi_target_num] = v
    /\ \A h \in VolumeHosts, t \in TargetNums :
          iscsi_targets[h][t] # NoVolume =>
              /\ iscsi_targets[h][t] \in DOMAIN host_volumes
              /\ host_volumes[iscsi_targets[h][t]].host = h
              /\ host_volumes[iscsi_targets[h][t]].iscsi_target_num = t

\* with every slot of a host in use the next create there fails with
\* NoMoreTargets, and destroying one of its volumes lets it succeed
NoMoreTargetsThenFreed ==
    \A v \in DOMAIN host_volumes :
        (/\ host_volumes[v].status = "creating"
         /\ host_volumes[v].iscsi_target_num = NoTarget
         /\ FreeTargets(iscsi_targets, host_volumes[v].host) = {})
            => /\ volume_allocate_iscsi_target(iscsi_targets, host_volumes,
                                               v).result = "NoMoreTargets"
               /\ \A w \in DOMAIN host_volumes :
                     (w # v /\ host_volumes[w].host = host_volumes[v].host
                          /\ host_volumes[w].iscsi_target_num # NoTarget)
                        => LET d == volume_destroy(iscsi_targets, host_volumes, w)
                           IN volume_allocate_iscsi_target(
                                  d.iscsi_targets, d.host_volumes, v).result = "ok"

\* the address is bound to the instance and project it is bound to in ips
StaysBound(ips, after, a) ==
    /\ after[a].instance = ips[a].instance
    /\ after[a].project = ips[a].project
    /\ a \notin AvailableIps(after)

\* the calls other than the release of a and the grace timer leave a leased
\* address bound, and none of them hands it out
OthersKeepBound(ips, a) ==
    /\ \A b \in FixedAddrs :
          /\ StaysBound(ips, deallocate_fixed_ip(ips, b).fixed_ips, a)
          /\ StaysBound(ips, lease_fixed_ip(ips, b).fixed_ips, a)
          /\ b # a => StaysBound(ips, release_fixed_ip(ips, b).fixed_ips, a)
    /\ \A i \in InstIds, p \in Projects :
          /\ StaysBound(ips, allocate_fixed_ip(ips, i, p).fixed_ips, a)
          /\ allocate_fixed_ip(ips, i, p).address # a

\* the release of a deallocated address frees it for the next allocation
ReleaseFrees(ips, a) ==
    ~ips[a].allocated =>
        /\ release_fixed_ip(ips, a).fixed_ips[a] = FreeIp
        /\ a \in AvailableIps(release_fixed_ip(ips, a).fixed_ips)

\* C32: a leased fixed IP stays bound to its instance and project after
\* deallocate_fixed_ip until the DHCP release event for it arrives; nothing
\* but that release makes the address free and available to an allocation
C32_BoundUntilRelease ==
    \A a \in FixedAddrs :
        (fixed_ips[a].leased /\ fixed_ips[a].instance # NoInstance) =>
            /\ OthersKeepBound(fixed_ips, a)
            /\ ReleaseFrees(fixed_ips, a)
            /\ \A expired \in SUBSET FixedAddrs :
                  StaysBound(fixed_ips,
                             lease_reaper(fixed_ips, expired).fixed_ips, a)

\* C32, amended: a leased fixed IP stays bound to its instance and project
\* after deallocate_fixed_ip until its DHCP release event arrives or the grace
\* timer of the deallocation runs out; the timer frees only deallocated
\* addresses whose timer has run out
C32_BoundUntilReleaseOrTimeout ==
    \A a \in FixedAddrs :
        (fixed_ips[a].leased /\ fixed_ips[a].instance # NoInstance) =>
            /\ OthersKeepBound(fixed_ips, a)
            /\ ReleaseFrees(fixed_ips, a)
            /\ \A expired \in SUBSET FixedAddrs :
                  (fixed_ips[a].allocated \/ a \notin expired) =>
                      StaysBound(fixed_ips,
                                 lease_reaper(fixed_ips, expired).fixed_ips, a)

\* a leased address has been deallocated and is still bound
C32_Witness ==
    /\ last.op = "deallocate_fixed_ip"
    /\ last.branch = "leased"
    /\ fixed_ips[last.arg].leased
    /\ ~fixed_ips[last.arg].allocated
    /\ fixed_ips[last.arg].instance # NoInstance
====
